---------------------------- MODULE Spec2Model ----------------------------
(***************************************************************************)
(* The convergence loop engine of auto-code: CommandExecutor (timeout,     *)
(* retry, workspace guard), the pass-condition evaluator, EngineState and  *)
(* the driver EngineRuntime::run.                                          *)
(*                                                                         *)
(* These state machines share this module:                                 *)
(*   SpecExec  one call of CommandExecutor::run, step by step (spawn,      *)
(*             wait loop, kill, collect, retry);                           *)
(*   SpecEval  evaluate_requirement / run_acceptance_checks applied to one *)
(*             validation CommandResult;                                   *)
(*   Spec      one call of EngineRuntime::run (LiveSpec adds fairness).    *)
(*   SpecResume  the same call, resumed from any state.json that parses;   *)
(*   SpecShare   the provider timeout of one requirement (fair share);     *)
(*   SpecCkpt    successive calls of CheckpointManager::save;              *)
(*   SpecSer     state.json written, loaded and resumed from;              *)
(*   SpecPrompt  send, read_output and restart of CliPrintProvider;        *)
(*   SpecExtract extract_commands_from_output on one provider output;      *)
(*   SpecProgress overall_progress under updates that set status Done;     *)
(*   SpecAttempts a record's attempts counter under requirement steps;     *)
(*   SpecLoop    state.iteration over the passes of the loop of run;       *)
(*   SpecReport  the IterationReport built at the end of one iteration;    *)
(*   SpecStep    the extracted commands and the validation of one step;    *)
(*   SpecAccept  run_acceptance_checks over the iterations of a run;       *)
(*   SpecGuard   check and remaining of one ConvergenceGuard over time.    *)
(* Time is counted in ticks of 10 ms in SpecExec and in seconds in Spec.   *)
(***************************************************************************)
EXTENDS Integers, Sequences, FiniteSets, TLC

VARIABLES
    \* ---- the process-wide interruption flag (runtime/signal.rs)
    interrupted,
    \* ---- CommandExecutor::run (core/executor.rs)
    exec_pc,        \* position inside run / run_once / wait_with_timeout
    exec_cfg,       \* ExecutionConfig and the workspace: timeout, max_retry, ...
    command,        \* the command text, as its whitespace-separated tokens
    attempt,        \* the loop variable of run (0 before the loop)
    spawns,         \* number of bash processes spawned by this call
    started,        \* ticks elapsed since wait_with_timeout took `started`
    child,          \* the spawned child: when it ends by itself and its exit code
    timed_out,      \* what wait_with_timeout returned for the current attempt
    history,        \* success() of each attempt made so far, in order
    exec_ret,       \* the value run returned (NoValue while running)
    \* ---- one validation judged by the evaluator (SpecEval)
    ev_pc,          \* "ready", then "requirement" or "acceptance"
    ev_cond,        \* the pass_condition text
    ev_ret,         \* what CommandExecutor::run returned for the validate_command
    ev_status,      \* the requirement's status (EvalResult.status once judged)
    ev_failed,      \* whether run_acceptance_checks pushed the criterion to `failed`
    ev_record,      \* the requirement's record in the EngineState
    \* ---- EngineRuntime::run (prd_runner/loop_engine/driver.rs)
    pc,               \* position inside run
    run_cfg,          \* dry_run, checkpoint.enabled, max_runtime, provider_timeout
    iteration,        \* state.iteration
    req_status,       \* state.req_status: requirement id -> ReqRecord
    previous_status,  \* status_snapshot() taken when the iteration started
    req_idx,          \* position of the current requirement (1-based)
    response_timeout, \* ai_process.response_timeout
    provider_result,  \* what the latest generate_instruction returned
    cmds_left,        \* extracted commands of the instruction not yet run
    acc_idx,          \* position of the current acceptance criterion
    failed_criteria,  \* `failed` of run_acceptance_checks
    acceptance_passed,
    last_checkpoint,  \* iteration whose checkpoint was saved last
    now,              \* seconds since ConvergenceGuard::new
    run_ret,          \* what run returned (NoValue while running)
    \* ---- history, read by the claims only
    iter_log,         \* what the current iteration did so far, in order
    full_pass_iter,   \* first iteration with all requirements Done and acceptance passed
    \* ---- the fair-share provider timeout of one requirement (SpecShare)
    fs_pc,          \* "ready", then "done"
    fs_in,          \* remaining budget, requirement count and position, provider_timeout
    fs_out,         \* the timeout passed to set_response_timeout
    \* ---- CheckpointManager on one checkpoint root (SpecCkpt)
    cp_pc,          \* "ready"; "failed" once a save returned an error
    cp_keep,        \* self.max_keep
    cp_dirs,        \* the directories under the root: name, creation rank, files
    cp_calls,       \* number of save calls made
    cp_made,        \* number of checkpoint directories created so far
    cp_ret,         \* what the latest save returned
    cp_fault,       \* the I/O operation that failed during the latest save, or "none"
    \* ---- state.json written from an EngineState and loaded by resume (SpecSer)
    ser_pc,         \* "ready", "saved", "loaded", "resumed"
    ser_state,      \* the EngineState that is serialized
    ser_json,       \* the content of state.json
    ser_loaded,     \* what serde_json::from_str returned
    ser_run,        \* the state of the resumed run when its first iteration starts
    \* ---- CliPrintProvider (SpecPrompt)
    pp_op,          \* the latest operation: "new", "send", "read_output", "restart"
    pp_pending,     \* self.pending_prompt
    pp_ret,         \* what the latest operation returned
    pp_sends,       \* the prompts sent since the latest read_output, restart or new
    pp_ops,         \* number of operations made
    \* ---- extract_commands_from_output (SpecExtract)
    ex_pc,          \* "ready", "extracted"
    ex_text,        \* the provider's output: its plain lines and fenced blocks, in order
    ex_cmds,        \* the commands returned
    \* ---- EngineState::overall_progress under update calls (SpecProgress)
    pg_pc,          \* "ready", "updated"
    pg_status,      \* the status of each record of the state
    pg_before,      \* what overall_progress returned before the latest update
    pg_progress,    \* what overall_progress returns now
    pg_ops,         \* number of update calls made
    \* ---- one requirement's attempts counter over requirement steps (SpecAttempts)
    at_pc,          \* "ready", "stepped"
    at_cfg,         \* dry_run and the executor's max_retry
    at_cond,        \* the requirement's pass_condition
    at_attempts,    \* record.attempts, a u32 held as its two 16-bit halves
    at_before,      \* record.attempts before the latest step
    at_last,        \* what CommandExecutor::run returned in the latest step
    at_steps,       \* number of requirement steps made
    \* ---- state.iteration over the passes of the loop of run (SpecLoop)
    lp_pc,          \* "loop_head", "body", "returned"
    lp_cfg,         \* whether the run is resumed, checkpoint.enabled
    lp_iteration,   \* state.iteration, a u32 held as its two 16-bit halves
    lp_ret,         \* the RunSummary returned (NoValue while running)
    lp_ckpt,        \* the checkpoint written by the latest save
    lp_starts,      \* number of iterations started by this run
    \* ---- the iteration report of one iteration (SpecReport)
    rp_pc,          \* "iter_start", "requirements", "reported"
    rp_prd,         \* number of requirements of the document (ids 1..rp_prd)
    rp_state,       \* state.req_status
    rp_prev,        \* previous_status, the snapshot taken when the iteration starts
    rp_idx,         \* position of the current requirement (1-based)
    rp_report,      \* the IterationReport built at the end of the iteration
    \* ---- one requirement step after the provider replied (SpecStep)
    st_pc,          \* "commands", "validated"
    st_dry_run,     \* self.dry_run
    st_cmds,        \* instruction.commands, in extraction order
    st_ran,         \* the calls of executor.run made so far and what each returned
    st_status,      \* the requirement's status
    \* ---- run_acceptance_checks over the iterations of a run (SpecAccept)
    ac_pc,          \* "requirements", "acceptance", "iteration_end", "returned"
    ac_cfg,         \* dry_run, the number of requirements, the criteria's conditions
    ac_iter,        \* the iteration
    ac_idx,         \* position of the current requirement or criterion (1-based)
    ac_failed,      \* `failed` of run_acceptance_checks
    ac_passed,      \* acceptance_passed
    ac_prev,        \* acceptance_passed when the iteration started
    ac_log,         \* the executor calls of the iteration so far, in order
    \* ---- ConvergenceGuard read at successive instants (SpecGuard)
    cg_pc,          \* "ready"
    cg_max,         \* self.max_runtime
    cg_now,         \* the time since ConvergenceGuard::new
    cg_check,       \* the latest check(): when it was called, whether it returned a reason
    cg_remaining,   \* the latest remaining(): when it was called, its value
    cg_earlier      \* the value of the remaining() call before the latest one

exec_vars == <<exec_pc, exec_cfg, command, attempt, spawns, started, child,
               timed_out, history, exec_ret>>

eval_vars == <<ev_pc, ev_cond, ev_ret, ev_status, ev_failed, ev_record>>

drv_vars == <<pc, run_cfg, iteration, req_status, previous_status, req_idx,
              response_timeout, provider_result, cmds_left, acc_idx, failed_criteria,
              acceptance_passed, last_checkpoint, now, run_ret, iter_log, full_pass_iter>>

fs_vars == <<fs_pc, fs_in, fs_out>>

cp_vars == <<cp_pc, cp_keep, cp_dirs, cp_calls, cp_made, cp_ret, cp_fault>>

ser_vars == <<ser_pc, ser_state, ser_json, ser_loaded, ser_run>>

pp_vars == <<pp_op, pp_pending, pp_ret, pp_sends, pp_ops>>

\* the variables of the smaller state machines
ex_vars == <<ex_pc, ex_text, ex_cmds>>

pg_vars == <<pg_pc, pg_status, pg_before, pg_progress, pg_ops>>

at_vars == <<at_pc, at_cfg, at_cond, at_attempts, at_before, at_last, at_steps>>

lp_vars == <<lp_pc, lp_cfg, lp_iteration, lp_ret, lp_ckpt, lp_starts>>

rp_vars == <<rp_pc, rp_prd, rp_state, rp_prev, rp_idx, rp_report>>

st_vars == <<st_pc, st_dry_run, st_cmds, st_ran, st_status>>

ac_vars == <<ac_pc, ac_cfg, ac_iter, ac_idx, ac_failed, ac_passed, ac_prev, ac_log>>

cg_vars == <<cg_pc, cg_max, cg_now, cg_check, cg_remaining, cg_earlier>>

late_vars == <<at_vars, lp_vars, rp_vars, st_vars, ac_vars, cg_vars>>

more_vars == <<fs_vars, cp_vars, ser_vars, pp_vars, ex_vars, pg_vars, late_vars>>

vars == <<interrupted, exec_vars, eval_vars, drv_vars, more_vars>>

\* what a step of the executor, of the evaluator, of the driver leaves alone
outside_exec == <<eval_vars, drv_vars, more_vars>>
outside_eval == <<interrupted, exec_vars, drv_vars, more_vars>>
outside_drv == <<exec_vars, eval_vars, more_vars>>

NoValue == [none |-> TRUE]

ShareUnused ==
    /\ fs_pc = "unused"
    /\ fs_in = NoValue
    /\ fs_out = NoValue

CkptUnused ==
    /\ cp_pc = "unused"
    /\ cp_keep = 0
    /\ cp_dirs = {}
    /\ cp_calls = 0
    /\ cp_made = 0
    /\ cp_ret = NoValue
    /\ cp_fault = "none"

SerUnused ==
    /\ ser_pc = "unused"
    /\ ser_state = NoValue
    /\ ser_json = NoValue
    /\ ser_loaded = NoValue
    /\ ser_run = NoValue

PromptUnused ==
    /\ pp_op = "unused"
    /\ pp_pending = NoValue
    /\ pp_ret = NoValue
    /\ pp_sends = <<>>
    /\ pp_ops = 0

ExtractUnused ==
    /\ ex_pc = "unused"
    /\ ex_text = <<>>
    /\ ex_cmds = <<>>

ProgressUnused ==
    /\ pg_pc = "unused"
    /\ pg_status = <<>>
    /\ pg_before = NoValue
    /\ pg_progress = NoValue
    /\ pg_ops = 0

AttemptsUnused ==
    /\ at_pc = "unused"
    /\ at_cfg = NoValue
    /\ at_cond = NoValue
    /\ at_attempts = NoValue
    /\ at_before = NoValue
    /\ at_last = NoValue
    /\ at_steps = 0

LoopUnused ==
    /\ lp_pc = "unused"
    /\ lp_cfg = NoValue
    /\ lp_iteration = NoValue
    /\ lp_ret = NoValue
    /\ lp_ckpt = NoValue
    /\ lp_starts = 0

ReportUnused ==
    /\ rp_pc = "unused"
    /\ rp_prd = 0
    /\ rp_state = <<>>
    /\ rp_prev = <<>>
    /\ rp_idx = 0
    /\ rp_report = NoValue

StepUnused ==
    /\ st_pc = "unused"
    /\ st_dry_run = FALSE
    /\ st_cmds = <<>>
    /\ st_ran = <<>>
    /\ st_status = "todo"

AcceptUnused ==
    /\ ac_pc = "unused"
    /\ ac_cfg = NoValue
    /\ ac_iter = 0
    /\ ac_idx = 0
    /\ ac_failed = <<>>
    /\ ac_passed = FALSE
    /\ ac_prev = FALSE
    /\ ac_log = <<>>

GuardUnused ==
    /\ cg_pc = "unused"
    /\ cg_max = 0
    /\ cg_now = 0
    /\ cg_check = NoValue
    /\ cg_remaining = NoValue
    /\ cg_earlier = NoValue

LateUnused ==
    /\ AttemptsUnused
    /\ LoopUnused
    /\ ReportUnused
    /\ StepUnused
    /\ AcceptUnused
    /\ GuardUnused

MoreUnused ==
    /\ LateUnused
    /\ ShareUnused
    /\ CkptUnused
    /\ SerUnused
    /\ PromptUnused
    /\ ExtractUnused
    /\ ProgressUnused

(***************************************************************************)
(* Bounds of the model.                                                    *)
(***************************************************************************)
MaxRetry == 2          \* max_retry ranges over 0..MaxRetry
MaxTimeout == 3        \* command timeout ranges over 1..MaxTimeout ticks

(***************************************************************************)
(* Program constants.                                                      *)
(***************************************************************************)
PollInterval == 2      \* Duration::from_millis(20), in ticks of 10 ms
KilledExitCode == -1   \* output.status.code().unwrap_or(-1)

\* A child ends by itself after 0..MaxDuration ticks; the longest ones outlive
\* every timeout and every poll.
MaxDuration == MaxTimeout + PollInterval + 2

\* A sleep, and the time between the last try_wait and the kill, may last this
\* many ticks more than asked.
Overshoots == {0, 1}

(***************************************************************************)
(* Commands: the text split at whitespace.  A blank or empty text has no   *)
(* token.                                                                  *)
(***************************************************************************)
Commands ==
    { <<>>,
      <<"echo", "ok">>,
      <<"cargo">>,
      <<"cargo", "test">>,
      <<"cargo", "init">>,
      <<"cargo", "--version">>,
      <<"cargo", "-q", "build">>,
      <<"cargo", "-q", "new">>,
      <<"cargo", "+nightly", "test">>,
      <<"cargo", "RUSTFLAGS=-g", "help">>,
      <<"cargo", "test", "--manifest-path=sub/Cargo.toml">>,
      <<"cd", "sub", "cargo">> }

\* command.contains("--manifest-path")
ContainsManifestPath(cmd) ==
    \E i \in 1..Len(cmd) : cmd[i] \in {"--manifest-path", "--manifest-path=sub/Cargo.toml"}

\* token.starts_with('-') || token.starts_with('+') || token.contains('=')
IsOptionToken(tok) ==
    tok \in {"-q", "--version", "-V", "+nightly", "RUSTFLAGS=-g", "--manifest-path",
             "--manifest-path=sub/Cargo.toml"}

ManifestFreeSubcommands ==
    {"new", "init", "install", "search", "login", "logout", "help", "version",
     "--version", "-V"}

\* iter.find(..) after the first token: the index of the subcommand, 0 if none
SubcommandIndex(cmd) ==
    LET cand == { i \in 2..Len(cmd) : ~IsOptionToken(cmd[i]) }
    IN  IF cand = {} THEN 0 ELSE CHOOSE i \in cand : \A j \in cand : i <= j

CargoRequiresManifestNoSub(cmd) ==
    IF Len(cmd) = 0 THEN FALSE
    ELSE IF cmd[1] # "cargo" THEN FALSE
    ELSE IF ContainsManifestPath(cmd) THEN FALSE
    ELSE IF SubcommandIndex(cmd) = 0 THEN FALSE
    ELSE cmd[SubcommandIndex(cmd)] \notin ManifestFreeSubcommands

cargo_command_requires_manifest(cmd) ==
    IF Len(cmd) = 0 THEN FALSE
    ELSE IF cmd[1] # "cargo" THEN FALSE
    ELSE IF ContainsManifestPath(cmd) THEN FALSE
    ELSE IF SubcommandIndex(cmd) = 0 THEN TRUE
    ELSE cmd[SubcommandIndex(cmd)] \notin ManifestFreeSubcommands

\* ensure_workspace_command_guard: TRUE when the command is refused
GuardRefuses(cmd, has_manifest) ==
    cargo_command_requires_manifest(cmd) /\ ~has_manifest

SuccessIgnoresTimeout(result) == result.exit_code = 0

\* CommandResult::success
success(result) == result.exit_code = 0 /\ ~result.timed_out

AttemptsOneMore(max_retry) == max_retry + 2

\* self.config.max_retry.saturating_add(1); max_retry stays far below the 32-bit
\* maximum here, so the addition never saturates
Attempts(max_retry) == max_retry + 1

ExecErr(msg) == [ok |-> FALSE, err |-> msg]
ExecOk(result) == [ok |-> TRUE, result |-> result]

\* CommandResult as run_once builds it (stdout, stderr and duration_ms play no
\* part in the executor's control flow)
CommandResult(cmd, code, timedOut, att) ==
    [ command |-> cmd, exit_code |-> code, timed_out |-> timedOut, attempt |-> att ]

Some(v) == [value |-> v]

\* a matched number that str::parse::<i32> rejects
OutOfRange == [out_of_range |-> TRUE]

(***************************************************************************)
(* The pass-condition evaluator (loop_engine/pass_condition.rs).           *)
(*                                                                         *)
(* A condition text is given by what the evaluator's patterns find in it:  *)
(* whether it is blank after trim, and what parse_exit_code,               *)
(* parse_coverage_threshold, is_clippy_warning_rule and                    *)
(* parse_output_contains capture from it.  A command's output is given by  *)
(* what the evaluator reads in stdout + "\n" + stderr: the last coverage   *)
(* value, whether "warning:" occurs, and which needles occur.              *)
(***************************************************************************)
\* An f64 as the evaluator meets it: int + ulps * 2^-53, for the whole numbers
\* 1 and 4 and above and for the neighbours of 1 (the f64 below 1 is
\* 1 - 2^-53, the f64 above 1 is 1 + 2^-52).
Whole(n) == [int |-> n, ulps |-> 0]

\* what "0.9999999999999999" parses to
JustBelowOne == [int |-> 1, ulps |-> -1]

F64Less(a, b) == a.int < b.int \/ (a.int = b.int /\ a.ulps < b.ulps)

\* v + f64::EPSILON, rounded to the nearest f64, ties to the even mantissa:
\* from 4 upwards f64 values are at least 2^-50 apart and the sum rounds back
\* to v; just below 1 the exact sum 1 + 2^-53 is a tie that rounds to 1; from
\* 1 upwards the values are 2^-52 apart and the sum is exact
PlusEpsilon(v) ==
    IF v.int >= 4 THEN v
    ELSE LET k == v.ulps + 2
         IN  [ int |-> v.int,
               ulps |-> IF k % 2 = 0 THEN k
                        ELSE IF (k - 1) % 4 = 0 THEN k - 1 ELSE k + 1 ]

Conditions ==
    { [ text |-> "", blank |-> TRUE,
        exit_code |-> NoValue, coverage |-> NoValue, clippy |-> FALSE, needle |-> NoValue ],
      [ text |-> "  ", blank |-> TRUE,
        exit_code |-> NoValue, coverage |-> NoValue, clippy |-> FALSE, needle |-> NoValue ],
      [ text |-> "exit code = 0", blank |-> FALSE,
        exit_code |-> Some(0), coverage |-> NoValue, clippy |-> FALSE, needle |-> NoValue ],
      [ text |-> "exit code: 1", blank |-> FALSE,
        exit_code |-> Some(1), coverage |-> NoValue, clippy |-> FALSE, needle |-> NoValue ],
      [ text |-> "exit code = 99999999999", blank |-> FALSE,
        exit_code |-> OutOfRange, coverage |-> NoValue, clippy |-> FALSE,
        needle |-> NoValue ],
      [ text |-> "coverage >= 80", blank |-> FALSE,
        exit_code |-> NoValue, coverage |-> Some(Whole(80)), clippy |-> FALSE, needle |-> NoValue ],
      [ text |-> "coverage >= 1", blank |-> FALSE,
        exit_code |-> NoValue, coverage |-> Some(Whole(1)), clippy |-> FALSE, needle |-> NoValue ],
      [ text |-> "no clippy warnings", blank |-> FALSE,
        exit_code |-> NoValue, coverage |-> NoValue, clippy |-> TRUE, needle |-> NoValue ],
      [ text |-> "contains 'ok'", blank |-> FALSE,
        exit_code |-> NoValue, coverage |-> NoValue, clippy |-> FALSE, needle |-> Some("ok") ],
      [ text |-> "exit code = 0 and output contains 'ok'", blank |-> FALSE,
        exit_code |-> Some(0), coverage |-> NoValue, clippy |-> FALSE, needle |-> Some("ok") ],
      [ text |-> "exit code = 1, coverage >= 80", blank |-> FALSE,
        exit_code |-> Some(1), coverage |-> Some(Whole(80)), clippy |-> FALSE, needle |-> NoValue ],
      [ text |-> "exit code = 0, no clippy warnings", blank |-> FALSE,
        exit_code |-> Some(0), coverage |-> NoValue, clippy |-> TRUE, needle |-> NoValue ],
      [ text |-> "all tests pass", blank |-> FALSE,
        exit_code |-> NoValue, coverage |-> NoValue, clippy |-> FALSE, needle |-> NoValue ] }

\* stdout_cov and stderr_cov: the coverage values that extract_coverage_value's
\* pattern matches in stdout and in stderr, in text order
Outputs ==
    [ stdout_cov : {<<>>, <<Whole(70)>>, <<Whole(85)>>},
      stderr_cov : {<<>>},
      warning : BOOLEAN,
      needles : {{}, {"ok"}} ]

CoverageValues == {JustBelowOne, Whole(1), Whole(70), Whole(85)}

\* the outputs the evaluator is exercised with
EvalOutputs ==
    [ stdout_cov : {<<>>} \cup { <<v>> : v \in CoverageValues },
      stderr_cov : {<<>>} \cup { <<v>> : v \in CoverageValues },
      warning : BOOLEAN,
      needles : {{}, {"ok"}} ]

ExtractFirstCoverage(out) ==
    LET all == out.stdout_cov \o out.stderr_cov
    IN  IF all = <<>> THEN NoValue ELSE Some(all[1])

\* extract_coverage_value(stdout + "\n" + stderr): captures_iter(..).last()
extract_coverage_value(out) ==
    LET all == out.stdout_cov \o out.stderr_cov
    IN  IF all = <<>> THEN NoValue ELSE Some(all[Len(all)])

\* a CommandResult together with what its stdout and stderr hold
ResultWithOutput(code, timedOut, att, out) ==
    [ command |-> <<"validate">>, exit_code |-> code, timed_out |-> timedOut,
      attempt |-> att, out |-> out ]

Passed(flag, rule) == [ok |-> TRUE, passed |-> flag, rule |-> rule]

\* lines 38-42: actual.map(|v| v + EPSILON >= required).unwrap_or(false)
CoverageRulePasses(required, result) ==
    LET actual == extract_coverage_value(result.out)
    IN  /\ actual # NoValue
        /\ ~F64Less(PlusEpsilon(actual.value), required)

\* lines 58-60
ClippyRulePasses(result) == result.exit_code = 0 /\ ~result.out.warning

\* lines 67-69
ContainsRulePasses(needle, result) == needle \in result.out.needles

ExitCodeRuleLast(cond, result) ==
    IF cond.blank THEN Passed(success(result), "default")
    ELSE IF cond.coverage # NoValue
      THEN Passed(CoverageRulePasses(cond.coverage.value, result), "coverage")
    ELSE IF cond.clippy
      THEN Passed(ClippyRulePasses(result), "clippy")
    ELSE IF cond.needle # NoValue
      THEN Passed(ContainsRulePasses(cond.needle.value, result), "contains")
    ELSE IF cond.exit_code = OutOfRange
      THEN [ok |-> FALSE, err |-> "failed to parse exit code in pass condition"]
    ELSE IF cond.exit_code # NoValue
      THEN Passed(result.exit_code = cond.exit_code.value /\ ~result.timed_out, "exit code")
    ELSE Passed(success(result), "fallback")

evaluate_pass_condition(cond, result) ==
    IF cond.blank THEN Passed(success(result), "default")
    ELSE IF cond.exit_code = OutOfRange
      THEN [ok |-> FALSE, err |-> "failed to parse exit code in pass condition"]
    ELSE IF cond.exit_code # NoValue
      THEN Passed(result.exit_code = cond.exit_code.value /\ ~result.timed_out, "exit code")
    ELSE IF cond.coverage # NoValue
      THEN Passed(CoverageRulePasses(cond.coverage.value, result), "coverage")
    ELSE IF cond.clippy
      THEN Passed(ClippyRulePasses(result), "clippy")
    ELSE IF cond.needle # NoValue
      THEN Passed(ContainsRulePasses(cond.needle.value, result), "contains")
    ELSE Passed(success(result), "fallback")

\* evaluate_requirement (prd_runner/loop_engine/evaluator.rs): the EvalResult
evaluate_requirement(cond, ret) ==
    IF ret.ok
      THEN LET check == evaluate_pass_condition(cond, ret.result)
               evidence == Some([exit_code |-> ret.result.exit_code])
           IN  IF check.ok /\ check.passed
                 THEN [ status |-> "done", evidence |-> evidence, error |-> NoValue,
                        attempt_increment |-> ret.result.attempt ]
               ELSE IF check.ok
                 THEN [ status |-> "failed", evidence |-> evidence,
                        error |-> Some("pass condition not satisfied"),
                        attempt_increment |-> ret.result.attempt ]
               ELSE [ status |-> "failed", evidence |-> evidence,
                      error |-> Some("failed to evaluate pass condition"),
                      attempt_increment |-> ret.result.attempt ]
      ELSE [ status |-> "failed", evidence |-> NoValue, error |-> Some(ret.err),
             attempt_increment |-> 1 ]

DryRunCountsAttempt ==
    [ status |-> "done", evidence |-> Some([exit_code |-> 0]), error |-> NoValue,
      attempt_increment |-> 1 ]

\* evaluate_requirement_dry_run
evaluate_requirement_dry_run ==
    [ status |-> "done", evidence |-> Some([exit_code |-> 0]), error |-> NoValue,
      attempt_increment |-> 0 ]

CriterionFailsUnlessError(cond, ret) ==
    ret.ok /\ LET check == evaluate_pass_condition(cond, ret.result)
              IN  check.ok /\ ~check.passed

\* run_acceptance_checks, lines 429-475: whether the criterion is pushed to `failed`
CriterionFails(cond, ret) ==
    IF ret.ok
      THEN LET check == evaluate_pass_condition(cond, ret.result)
           IN  ~(check.ok /\ check.passed)
      ELSE TRUE

(***************************************************************************)
(* The requirements document, EngineState and ConvergenceGuard.            *)
(***************************************************************************)
MaxIter == 2           \* iterations a run may start (guard of LoopHead)
MaxCmds == 1           \* commands extracted from one provider reply
MaxRuntime == 1        \* the longest max_runtime, in seconds

ConditionOf(text) == CHOOSE c \in Conditions : c.text = text

\* PrdDocument.requirements: the id and pass_condition of each requirement
Requirements ==
    << [ id |-> "REQ-1", pass_condition |-> ConditionOf("exit code = 0") ],
       [ id |-> "REQ-2", pass_condition |-> ConditionOf("exit code: 1") ] >>

\* PrdDocument.acceptance
AcceptanceCriteria ==
    << [ name |-> "all green", pass_condition |-> ConditionOf("contains 'ok'") ] >>

NumReqs == Len(Requirements)

NumCriteria == Len(AcceptanceCriteria)

Requirement(i) == Requirements[i]

Criterion(j) == AcceptanceCriteria[j]

ReqIds == { Requirements[i].id : i \in 1..NumReqs }

\* ReqRecord::default
DefaultReqRecord ==
    [ status |-> "todo", attempts |-> 0, evidence |-> NoValue, last_error |-> NoValue ]

\* EngineState::new
EngineStateNew == [ id \in ReqIds |-> DefaultReqRecord ]

\* the req_status of a state.json written at the end of an iteration
CheckpointStates ==
    { [ id \in ReqIds |->
          IF id \in done
            THEN [ status |-> "done", attempts |-> 1,
                   evidence |-> Some([exit_code |-> 0]), last_error |-> NoValue ]
            ELSE [ status |-> "failed", attempts |-> 1,
                   evidence |-> Some([exit_code |-> 1]),
                   last_error |-> Some("pass condition not satisfied") ] ] :
      done \in SUBSET ReqIds }

\* EngineState::all_done
all_done(records) == \A id \in DOMAIN records : records[id].status = "done"

\* EngineState::status_snapshot
status_snapshot(records) == [ id \in DOMAIN records |-> records[id].status ]

HasProgressAnyDone(records, prev) ==
    \E id \in DOMAIN records : records[id].status = "done"

\* EngineState::has_progress_since
has_progress_since(records, prev) ==
    \E id \in DOMAIN records :
        LET old == IF id \in DOMAIN prev THEN prev[id] ELSE "todo"
        IN  old # "done" /\ records[id].status = "done"

\* EngineState::mark_in_progress
mark_in_progress(records, id) ==
    IF id \in DOMAIN records
      THEN [records EXCEPT ![id].status = "in_progress"]
      ELSE records

UpdateIgnored(records, id, eval) == records

UpdateKeepsLastError(records, id, eval) ==
    IF id \in DOMAIN records
      THEN [records EXCEPT ![id] =
               [ status |-> eval.status,
                 attempts |-> @.attempts + eval.attempt_increment,
                 evidence |-> eval.evidence,
                 last_error |-> IF eval.error = NoValue THEN @.last_error ELSE eval.error ]]
      ELSE records

\* EngineState::update (attempts is a u32 that saturates; it stays far below
\* the maximum within MaxIter iterations)
update(records, id, eval) ==
    IF id \in DOMAIN records
      THEN [records EXCEPT ![id] =
               [ status |-> eval.status,
                 attempts |-> @.attempts + eval.attempt_increment,
                 evidence |-> eval.evidence,
                 last_error |-> eval.error ]]
      ELSE records

\* is_run_completed
is_run_completed(records, acceptancePassed) == all_done(records) /\ acceptancePassed

ElapsedStuck(t) == 0

\* self.start.elapsed()
Elapsed(t) == t

ConvergenceCheckStrict(t, maxRuntime) == Elapsed(t) > maxRuntime

\* ConvergenceGuard::check: TRUE when it returns a stop reason
ConvergenceCheck(t, maxRuntime) == Elapsed(t) >= maxRuntime

RemainingUnsaturated(t, maxRuntime) == maxRuntime - Elapsed(t)

\* ConvergenceGuard::remaining: max_runtime.saturating_sub(elapsed)
Remaining(t, maxRuntime) ==
    IF maxRuntime > Elapsed(t) THEN maxRuntime - Elapsed(t) ELSE 0

ShareTimeoutNoFloor(remaining, n, i, providerTimeout, second) ==
    LET pending == IF n >= i THEN n - i ELSE 0
        share == IF pending > 0 THEN remaining \div pending ELSE remaining
    IN  IF providerTimeout < share THEN providerTimeout ELSE share

\* driver.rs lines 142-150, for the requirement at 0-based position i of n,
\* in a time unit of which `second` make one second:
\*   pending = n.saturating_sub(i); remaining / pending (Duration division,
\*   which truncates); .max(1 s); min(provider_timeout, ..)
ShareTimeout(remaining, n, i, providerTimeout, second) ==
    LET pending == IF n >= i THEN n - i ELSE 0
        share == IF pending > 0 THEN remaining \div pending ELSE remaining
        floored == IF share < second THEN second ELSE share
    IN  IF providerTimeout < floored THEN providerTimeout ELSE floored

\* the provider timeout of requirement reqIdx (1-based) of the document, in seconds
EffectiveProviderTimeout(remaining, reqIdx, providerTimeout) ==
    ShareTimeout(remaining, NumReqs, reqIdx - 1, providerTimeout, 1)

(***************************************************************************)
(* Provider errors: the error chain the driver builds, given by the        *)
(* substrings fatal_provider_stop_reason looks for (after lowercasing).    *)
(***************************************************************************)
ProviderErrors ==
    { [ text |-> "claude returned error: Not logged in - Please run /login",
        has |-> {"not logged in", "please run /login", "run /login"} ],
      [ text |-> "claude returned error: Invalid API key - run /login",
        has |-> {"run /login"} ],
      [ text |-> "failed to spawn provider process | caused by: No such file or directory (os error 2)",
        has |-> {"failed to spawn provider process", "no such file or directory"} ],
      [ text |-> "failed to spawn provider process | caused by: program not found",
        has |-> {"failed to spawn provider process", "not found"} ],
      [ text |-> "failed to spawn provider process | caused by: Permission denied (os error 13)",
        has |-> {"failed to spawn provider process"} ],
      [ text |-> "claude returned error: API Error: 429",
        has |-> {} ],
      [ text |-> "provider timed out after 60s",
        has |-> {} ],
      [ text |-> "provider 'mycli' exited with code Some(127): mycli: command not found",
        has |-> {"not found"} ],
      [ text |-> "execution interrupted by Ctrl+C",
        has |-> {} ] }

InterruptedError == CHOOSE e \in ProviderErrors : e.text = "execution interrupted by Ctrl+C"

\* errors that run_with_timeout returns before its wait loop starts
SpawnErrors == { e \in ProviderErrors : "failed to spawn provider process" \in e.has }

AuthStopReason == "provider authentication required"
NotFoundStopReason == "provider command not found in PATH"

NeverFatal(err) == NoValue

AllFatal(err) == Some(AuthStopReason)

\* fatal_provider_stop_reason: Some(reason) or None
fatal_provider_stop_reason(err) ==
    IF \/ "not logged in" \in err.has
       \/ "please run /login" \in err.has
       \/ "run /login" \in err.has
      THEN Some(AuthStopReason)
    ELSE IF /\ "failed to spawn provider process" \in err.has
            /\ ("no such file or directory" \in err.has \/ "not found" \in err.has)
      THEN Some(NotFoundStopReason)
    ELSE NoValue

\* what generate_instruction can return outside dry-run: an instruction with
\* 0..MaxCmds extracted commands, or an error
ProviderOk(n) == [ok |-> TRUE, commands |-> n]
ProviderErr(e) == [ok |-> FALSE, err |-> e]

\* RunSummary
RunSummary(completed, iterations, reason, checkpoint) ==
    [ ok |-> TRUE,
      summary |-> [ completed |-> completed, iterations |-> iterations,
                    stop_reason |-> reason, last_checkpoint |-> checkpoint ] ]

\* what CommandExecutor::run can return to the driver with the executor's
\* max_retry: a success of any attempt, a failure of the last attempt, or an error
DriverMaxRetries == {0}

RunReturns(maxRetry) ==
    { ExecOk(r) : r \in
        { ResultWithOutput(o[1], o[2], att, out) :
            o \in {<<0, FALSE>>, <<1, FALSE>>},
            att \in 1..Attempts(maxRetry), out \in Outputs } }
    \cup { ExecErr("requires local Cargo.toml") }

ValidRunReturns(maxRetry) ==
    { ret \in RunReturns(maxRetry) :
        ret.ok => (success(ret.result) \/ ret.result.attempt = Attempts(maxRetry)) }

DrvUnused ==
    /\ pc = "unused"
    /\ run_cfg = NoValue
    /\ iteration = 0
    /\ req_status = <<>>
    /\ previous_status = <<>>
    /\ req_idx = 0
    /\ response_timeout = 0
    /\ provider_result = NoValue
    /\ cmds_left = 0
    /\ acc_idx = 0
    /\ failed_criteria = {}
    /\ acceptance_passed = FALSE
    /\ last_checkpoint = NoValue
    /\ now = 0
    /\ run_ret = NoValue
    /\ iter_log = <<>>
    /\ full_pass_iter = 0

(***************************************************************************)
(* SpecEval: one validation CommandResult judged as a requirement's        *)
(* validation and as an acceptance criterion.                              *)
(***************************************************************************)
EvalReturns ==
    { ExecOk(ResultWithOutput(code, timedOut, 1, out)) :
          code \in {0, 1, KilledExitCode}, timedOut \in BOOLEAN, out \in EvalOutputs }
    \cup { ExecErr("requires local Cargo.toml"), ExecErr("empty command is not allowed"),
           ExecErr("failed to spawn command") }

\* the requirement's record before its step: never tried, or failed in an
\* earlier iteration
RecordsBeforeStep ==
    { DefaultReqRecord,
      [ status |-> "failed", attempts |-> 1, evidence |-> Some([exit_code |-> 1]),
        last_error |-> Some("pass condition not satisfied") ] }

EvalUnused ==
    /\ ev_pc = "unused"
    /\ ev_cond = NoValue
    /\ ev_ret = NoValue
    /\ ev_status = "todo"
    /\ ev_failed = FALSE
    /\ ev_record = NoValue

ExecUnused ==
    /\ exec_cfg = NoValue
    /\ command = <<>>
    /\ exec_pc = "unused"
    /\ attempt = 0
    /\ spawns = 0
    /\ started = 0
    /\ child = NoValue
    /\ timed_out = FALSE
    /\ history = <<>>
    /\ exec_ret = NoValue

InitEval ==
    /\ interrupted = FALSE
    /\ MoreUnused
    /\ ExecUnused
    /\ ev_pc = "ready"
    /\ ev_cond \in Conditions
    /\ ev_ret \in EvalReturns
    /\ ev_status = "in_progress"
    /\ ev_failed = FALSE
    /\ ev_record \in { mark_in_progress([r \in {"REQ-1"} |-> rec], "REQ-1")["REQ-1"] :
                          rec \in RecordsBeforeStep }
    /\ DrvUnused

\* driver.rs lines 299-331: evaluate_requirement, then state.update
EvalRequirementStep ==
    /\ ev_pc = "ready"
    /\ ev_pc' = "requirement"
    /\ ev_status' = evaluate_requirement(ev_cond, ev_ret).status
    /\ ev_record' = update([r \in {"REQ-1"} |-> ev_record], "REQ-1",
                           evaluate_requirement(ev_cond, ev_ret))["REQ-1"]
    /\ UNCHANGED <<outside_eval, ev_cond, ev_ret, ev_failed>>

\* driver.rs lines 429-475: one criterion of run_acceptance_checks
EvalAcceptanceStep ==
    /\ ev_pc = "ready"
    /\ ev_pc' = "acceptance"
    /\ ev_failed' = CriterionFails(ev_cond, ev_ret)
    /\ UNCHANGED <<outside_eval, ev_cond, ev_ret, ev_status, ev_record>>

NextEval ==
    \/ EvalRequirementStep
    \/ EvalAcceptanceStep

SpecEval == InitEval /\ [][NextEval]_vars

(***************************************************************************)
(* CommandExecutor::run, step by step.                                     *)
(***************************************************************************)
ExecConfigs ==
    [ timeout : 1..MaxTimeout,
      timeout_valid : BOOLEAN,
      max_retry : 0..MaxRetry,
      has_manifest : BOOLEAN ]

ExecIdle ==
    /\ exec_pc = "idle"
    /\ attempt = 0
    /\ spawns = 0
    /\ started = 0
    /\ child = NoValue
    /\ timed_out = FALSE
    /\ history = <<>>
    /\ exec_ret = NoValue

InitExec ==
    /\ interrupted = FALSE
    /\ MoreUnused
    /\ exec_cfg \in ExecConfigs
    /\ command \in Commands
    /\ ExecIdle
    /\ EvalUnused
    /\ DrvUnused

\* run, lines 64-70: the empty check, the guard, then the first attempt
ExecCall ==
    /\ exec_pc = "idle"
    /\ IF Len(command) = 0
         THEN /\ exec_pc' = "returned"
              /\ exec_ret' = ExecErr("empty command is not allowed")
              /\ UNCHANGED attempt
       ELSE IF GuardRefuses(command, exec_cfg.has_manifest)
         THEN /\ exec_pc' = "returned"
              /\ exec_ret' = ExecErr("requires local Cargo.toml")
              /\ UNCHANGED attempt
       ELSE /\ exec_pc' = "run_once"
            /\ attempt' = 1
            /\ UNCHANGED exec_ret
    /\ UNCHANGED <<outside_exec, interrupted, exec_cfg, command, spawns, started, child,
                   timed_out, history>>

\* run_once, lines 101-115: parse the timeout, spawn bash -lc command
ExecSpawn ==
    /\ exec_pc = "run_once"
    /\ \/ /\ ~exec_cfg.timeout_valid
          /\ exec_pc' = "returned"
          /\ exec_ret' = ExecErr("failed to parse command timeout")
          /\ UNCHANGED <<spawns, started, child>>
       \/ /\ exec_cfg.timeout_valid
          /\ exec_pc' = "returned"
          /\ exec_ret' = ExecErr("failed to spawn command")
          /\ UNCHANGED <<spawns, started, child>>
       \/ /\ exec_cfg.timeout_valid
          /\ \E dur \in 0..MaxDuration, code \in {0, 1} :
                child' = [dur |-> dur, code |-> code]
          /\ spawns' = spawns + 1
          /\ started' = 0
          /\ exec_pc' = "wait"
          /\ UNCHANGED exec_ret
    /\ timed_out' = FALSE
    /\ UNCHANGED <<outside_exec, interrupted, exec_cfg, command, attempt, history>>

\* wait_with_timeout, lines 153-167: one pass of the loop
ExecPoll ==
    /\ exec_pc = "wait"
    /\ IF child.dur <= started
         THEN /\ timed_out' = FALSE
              /\ exec_pc' = "collect"
              /\ UNCHANGED started
       ELSE IF started >= exec_cfg.timeout
         THEN /\ timed_out' = TRUE
              /\ exec_pc' = "kill"
              /\ UNCHANGED started
       ELSE /\ \E over \in Overshoots : started' = started + PollInterval + over
            /\ UNCHANGED <<timed_out, exec_pc>>
    /\ UNCHANGED <<outside_exec, interrupted, exec_cfg, command, attempt, spawns, child,
                   history, exec_ret>>

\* run_once, lines 119-126: child.kill() after a timeout.  The child may have
\* ended by itself between the last try_wait and the kill: it then keeps its
\* own exit code.
ExecKill ==
    /\ exec_pc = "kill"
    /\ \/ /\ exec_pc' = "returned"
          /\ exec_ret' = ExecErr("command timed out and kill failed")
          /\ UNCHANGED <<started, child>>
       \/ /\ \E over \in Overshoots :
                /\ started' = started + over
                /\ child' = IF child.dur <= started + over
                              THEN child
                              ELSE [child EXCEPT !.code = KilledExitCode]
          /\ exec_pc' = "collect"
          /\ UNCHANGED exec_ret
    /\ UNCHANGED <<outside_exec, interrupted, exec_cfg, command, attempt, spawns, timed_out,
                   history>>

\* run_once, lines 128-145, then run, lines 73-80
ExecCollect ==
    /\ exec_pc = "collect"
    /\ LET result == CommandResult(command, child.code, timed_out, attempt)
       IN  /\ history' = Append(history, success(result))
           /\ IF success(result)
                THEN /\ exec_pc' = "returned"
                     /\ exec_ret' = ExecOk(result)
                     /\ UNCHANGED attempt
              ELSE IF attempt < Attempts(exec_cfg.max_retry)
                THEN /\ exec_pc' = "run_once"
                     /\ attempt' = attempt + 1
                     /\ UNCHANGED exec_ret
              ELSE /\ exec_pc' = "returned"
                   /\ exec_ret' = ExecOk(result)
                   /\ UNCHANGED attempt
    /\ child' = NoValue
    /\ started' = 0
    /\ timed_out' = FALSE
    /\ UNCHANGED <<outside_exec, interrupted, exec_cfg, command, spawns>>

\* the Ctrl+C handler: INTERRUPTED.store(true), while the process lives
Interrupt ==
    /\ ~interrupted
    /\ pc # "returned"
    /\ interrupted' = TRUE
    /\ UNCHANGED <<exec_vars, eval_vars, drv_vars, more_vars>>

NextExec ==
    \/ ExecCall
    \/ ExecSpawn
    \/ ExecPoll
    \/ ExecKill
    \/ ExecCollect
    \/ Interrupt

SpecExec == InitExec /\ [][NextExec]_vars

(***************************************************************************)
(* EngineRuntime::run, one step per stage of the loop.                     *)
(***************************************************************************)
RunConfigs ==
    [ dry_run : BOOLEAN,
      checkpoint_enabled : BOOLEAN,
      max_runtime : {0, MaxRuntime},
      provider_timeout : {MaxRuntime},
      max_retry : DriverMaxRetries,
      resumed : BOOLEAN ]

\* run, lines 68-86: a fresh state, or the state of a checkpoint
Init ==
    /\ interrupted = FALSE
    /\ MoreUnused
    /\ ExecUnused
    /\ EvalUnused
    /\ run_cfg \in RunConfigs
    /\ IF run_cfg.resumed
         THEN iteration \in 1..MaxIter /\ req_status \in CheckpointStates
         ELSE iteration = 0 /\ req_status = EngineStateNew
    /\ pc = "loop_head"
    /\ previous_status = status_snapshot(req_status)
    /\ req_idx = 0
    /\ response_timeout = run_cfg.provider_timeout
    /\ provider_result = NoValue
    /\ cmds_left = 0
    /\ acc_idx = 0
    /\ failed_criteria = {}
    /\ acceptance_passed = FALSE
    /\ last_checkpoint = NoValue
    /\ now = 0
    /\ run_ret = NoValue
    /\ iter_log = <<>>
    /\ full_pass_iter = 0

\* return Ok(RunSummary {..}) or Err(..)
Return(value) ==
    /\ pc' = "returned"
    /\ run_ret' = value

LoopHeadBudgetFirst ==
    /\ pc = "loop_head"
    /\ IF ConvergenceCheck(now, run_cfg.max_runtime)
         THEN /\ Return(RunSummary(is_run_completed(req_status, acceptance_passed),
                                   iteration, "reached max_runtime", last_checkpoint))
              /\ UNCHANGED <<iteration, previous_status, req_idx, iter_log>>
       ELSE IF interrupted
         THEN /\ Return(RunSummary(is_run_completed(req_status, acceptance_passed),
                                   iteration, "received Ctrl+C", last_checkpoint))
              /\ UNCHANGED <<iteration, previous_status, req_idx, iter_log>>
       ELSE /\ iteration < MaxIter
            /\ iteration' = iteration + 1
            /\ previous_status' = status_snapshot(req_status)
            /\ req_idx' = 1
            /\ iter_log' = <<>>
            /\ pc' = "req_start"
            /\ UNCHANGED run_ret
    /\ UNCHANGED <<outside_drv, interrupted, run_cfg, iteration, req_status, response_timeout,
                   provider_result, cmds_left, acc_idx, failed_criteria,
                   acceptance_passed, last_checkpoint, now, full_pass_iter>>

\* lines 88-115: the checks at the head of the loop, then the iteration starts
LoopHead ==
    /\ pc = "loop_head"
    /\ IF interrupted
         THEN /\ Return(RunSummary(is_run_completed(req_status, acceptance_passed),
                                   iteration, "received Ctrl+C", last_checkpoint))
              /\ UNCHANGED <<iteration, previous_status, req_idx, iter_log>>
       ELSE IF ConvergenceCheck(now, run_cfg.max_runtime)
         THEN /\ Return(RunSummary(is_run_completed(req_status, acceptance_passed),
                                   iteration, "reached max_runtime", last_checkpoint))
              /\ UNCHANGED <<iteration, previous_status, req_idx, iter_log>>
       ELSE /\ iteration < MaxIter
            /\ iteration' = iteration + 1
            /\ previous_status' = status_snapshot(req_status)
            /\ req_idx' = 1
            /\ iter_log' = <<>>
            /\ pc' = "req_start"
            /\ UNCHANGED run_ret
    /\ UNCHANGED <<outside_drv, interrupted, run_cfg, req_status, response_timeout,
                   provider_result, cmds_left, acc_idx, failed_criteria,
                   acceptance_passed, last_checkpoint, now, full_pass_iter>>

\* lines 117-151: the checks at the start of a requirement, the fair share
ReqStart ==
    /\ pc = "req_start"
    /\ LET req == Requirement(req_idx)
           marked == mark_in_progress(req_status, req.id)
           remaining == Remaining(now, run_cfg.max_runtime)
       IN  IF interrupted
             THEN /\ Return(RunSummary(is_run_completed(req_status, acceptance_passed),
                                       iteration, "received Ctrl+C", last_checkpoint))
                  /\ UNCHANGED <<req_status, response_timeout>>
           ELSE IF remaining = 0
             THEN /\ req_status' = marked
                  /\ Return(RunSummary(is_run_completed(marked, acceptance_passed),
                                       iteration, "reached max_runtime (0s remaining)",
                                       last_checkpoint))
                  /\ UNCHANGED response_timeout
           ELSE /\ req_status' = marked
                /\ response_timeout' =
                       EffectiveProviderTimeout(remaining, req_idx, run_cfg.provider_timeout)
                /\ pc' = "provider"
                /\ UNCHANGED run_ret
    /\ UNCHANGED <<outside_drv, interrupted, run_cfg, iteration, previous_status, req_idx,
                   provider_result, cmds_left, acc_idx, failed_criteria,
                   acceptance_passed, last_checkpoint, now, iter_log, full_pass_iter>>

\* lines 175-215 with an instruction of n commands
ProviderReplied(n) ==
    /\ provider_result' = ProviderOk(n)
    /\ cmds_left' = n
    /\ pc' = IF n = 0 THEN "validate" ELSE "commands"
    /\ UNCHANGED run_ret

\* lines 177-214: the provider call failed with error chain e
ProviderFailed(e) ==
    /\ provider_result' = ProviderErr(e)
    /\ LET stop == fatal_provider_stop_reason(e)
       IN  IF stop # NoValue
             THEN /\ Return(RunSummary(FALSE, iteration, stop.value, last_checkpoint))
                  /\ UNCHANGED cmds_left
             ELSE /\ cmds_left' = 0
                  /\ pc' = "validate"
                  /\ UNCHANGED run_ret

\* lines 174-215: generate_instruction.  The provider's wait loop reads the
\* interruption flag before anything else, so a call made or running with the
\* flag set fails with "execution interrupted by Ctrl+C".
ProviderCall ==
    /\ pc = "provider"
    /\ \/ /\ run_cfg.dry_run
          /\ ProviderReplied(0)
          /\ UNCHANGED <<interrupted, iter_log>>
       \/ /\ ~run_cfg.dry_run
          /\ iter_log' = Append(iter_log, <<"provider", req_idx>>)
          /\ \/ /\ \E e \in SpawnErrors : ProviderFailed(e)
                /\ UNCHANGED interrupted
             \/ /\ interrupted
                /\ ProviderFailed(InterruptedError)
                /\ UNCHANGED interrupted
             \/ /\ ~interrupted
                /\ \E n \in 0..MaxCmds : ProviderReplied(n)
                /\ UNCHANGED interrupted
             \/ /\ ~interrupted
                /\ \E e \in (ProviderErrors \ SpawnErrors) \ {InterruptedError} :
                      ProviderFailed(e)
                /\ UNCHANGED interrupted
             \/ /\ ~interrupted
                /\ interrupted' = TRUE
                /\ ProviderFailed(InterruptedError)
    /\ UNCHANGED <<outside_drv, run_cfg, iteration, req_status, previous_status, req_idx,
                   response_timeout, acc_idx, failed_criteria, acceptance_passed,
                   last_checkpoint, now, full_pass_iter>>

\* lines 247-294: one extracted command; its result or error is only written
\* to the run log
RunCommand ==
    /\ pc = "commands"
    /\ cmds_left > 0
    /\ UNCHANGED iter_log
    /\ cmds_left' = cmds_left - 1
    /\ pc' = IF cmds_left = 1 THEN "validate" ELSE "commands"
    /\ UNCHANGED <<outside_drv, interrupted, run_cfg, iteration, req_status,
                   previous_status, req_idx, response_timeout, provider_result, acc_idx,
                   failed_criteria, acceptance_passed, last_checkpoint, now, run_ret,
                   full_pass_iter>>

\* lines 296-332: the requirement's validation, then state.update
Validate ==
    /\ pc = "validate"
    /\ LET req == Requirement(req_idx)
           evals == IF run_cfg.dry_run
                      THEN {evaluate_requirement_dry_run}
                      ELSE { evaluate_requirement(req.pass_condition, ret) :
                               ret \in ValidRunReturns(run_cfg.max_retry) }
       IN  \E eval \in evals : req_status' = update(req_status, req.id, eval)
    /\ iter_log' = IF run_cfg.dry_run
                     THEN iter_log
                     ELSE Append(iter_log, <<"validate", req_idx>>)
    /\ IF req_idx < NumReqs
         THEN /\ req_idx' = req_idx + 1
              /\ pc' = "req_start"
              /\ UNCHANGED <<acc_idx, failed_criteria>>
         ELSE /\ pc' = "acceptance"
              /\ acc_idx' = 1
              /\ failed_criteria' = {}
              /\ UNCHANGED req_idx
    /\ provider_result' = NoValue      \* the requirement's block ends
    /\ UNCHANGED <<outside_drv, interrupted, run_cfg, iteration, previous_status,
                   response_timeout, cmds_left, acceptance_passed,
                   last_checkpoint, now, run_ret, full_pass_iter>>

\* run_acceptance_checks, lines 417-476: one criterion; after the last one,
\* line 341: acceptance_passed = failed_criteria.is_empty()
AcceptanceCheck ==
    /\ pc = "acceptance"
    /\ LET outcomes == IF run_cfg.dry_run
                         THEN {FALSE}
                         ELSE { CriterionFails(Criterion(acc_idx).pass_condition, ret) :
                                  ret \in ValidRunReturns(run_cfg.max_retry) }
       IN  \E fails \in outcomes :
             LET failed == IF fails THEN failed_criteria \cup {acc_idx}
                                    ELSE failed_criteria
             IN  /\ failed_criteria' = failed
                 /\ IF acc_idx < NumCriteria
                      THEN /\ acc_idx' = acc_idx + 1
                           /\ UNCHANGED <<pc, acceptance_passed, full_pass_iter>>
                      ELSE /\ acceptance_passed' = (failed = {})
                           /\ pc' = "iteration_end"
                           /\ full_pass_iter' =
                                  IF full_pass_iter = 0 /\ failed = {} /\ all_done(req_status)
                                    THEN iteration
                                    ELSE full_pass_iter
                           /\ UNCHANGED acc_idx
    /\ iter_log' = IF run_cfg.dry_run
                     THEN iter_log
                     ELSE Append(iter_log, <<"acceptance", acc_idx>>)
    /\ UNCHANGED <<outside_drv, interrupted, run_cfg, iteration, req_status,
                   previous_status, req_idx, response_timeout, provider_result, cmds_left,
                   last_checkpoint, now, run_ret>>

\* lines 361-403: the iteration report, then the checkpoint; a failed write
\* of either makes run return the error
IterationEnd ==
    /\ pc = "iteration_end"
    /\ \/ /\ Return(ExecErr("failed to write report"))
          /\ UNCHANGED <<iter_log, last_checkpoint>>
       \/ /\ ~run_cfg.checkpoint_enabled
          /\ iter_log' = Append(iter_log, <<"report", iteration>>)
          /\ pc' = "loop_head"
          /\ UNCHANGED <<run_ret, last_checkpoint>>
       \/ /\ run_cfg.checkpoint_enabled
          /\ iter_log' = iter_log \o << <<"report", iteration>>, <<"checkpoint", iteration>> >>
          /\ last_checkpoint' = Some(iteration)
          /\ pc' = "loop_head"
          /\ UNCHANGED run_ret
       \/ /\ run_cfg.checkpoint_enabled
          /\ iter_log' = Append(iter_log, <<"report", iteration>>)
          /\ Return(ExecErr("failed to save checkpoint"))
          /\ UNCHANGED last_checkpoint
    /\ UNCHANGED <<outside_drv, interrupted, run_cfg, iteration, req_status,
                   previous_status, req_idx, response_timeout, provider_result, cmds_left,
                   acc_idx, failed_criteria, acceptance_passed, now, full_pass_iter>>

\* a second of wall-clock time passes (Instant::now() grows); past max_runtime
\* the clock no longer matters to the run
Tick ==
    /\ pc \notin {"returned", "unused"}
    /\ now < run_cfg.max_runtime
    /\ now' = now + 1
    /\ UNCHANGED <<outside_drv, interrupted, pc, run_cfg, iteration, req_status,
                   previous_status, req_idx, response_timeout, provider_result, cmds_left,
                   acc_idx, failed_criteria, acceptance_passed, last_checkpoint, run_ret,
                   iter_log, full_pass_iter>>

RunStep ==
    \/ LoopHead
    \/ ReqStart
    \/ ProviderCall
    \/ RunCommand
    \/ Validate
    \/ AcceptanceCheck
    \/ IterationEnd

Next ==
    \/ RunStep
    \/ Tick
    \/ Interrupt

Spec == Init /\ [][Next]_vars

\* run is one thread that keeps executing (every call it makes returns), and
\* the clock keeps advancing
LiveSpec == Spec /\ WF_vars(RunStep) /\ WF_vars(Tick)

(***************************************************************************)
(* SpecShare: the fair-share provider timeout (driver.rs lines 130-151)    *)
(* computed for one requirement, in ticks of 250 ms.                       *)
(***************************************************************************)
MaxRemaining == 12        \* the remaining budget ranges over 1..MaxRemaining ticks
MaxDocReqs == 3           \* the document has 1..MaxDocReqs requirements
MaxProviderTimeout == 9   \* provider_timeout ranges over 0..MaxProviderTimeout ticks
ShareSecond == 4          \* Duration::from_secs(1), in ticks

\* the remaining budget is not zero here: line 131 has returned otherwise
ShareInputs ==
    { in \in [ remaining : 1..MaxRemaining, n : 1..MaxDocReqs, i : 0..(MaxDocReqs - 1),
               provider_timeout : 0..MaxProviderTimeout ] : in.i < in.n }

InitShare ==
    /\ interrupted = FALSE
    /\ ExecUnused
    /\ EvalUnused
    /\ DrvUnused
    /\ CkptUnused
    /\ SerUnused
    /\ PromptUnused
    /\ ExtractUnused
    /\ ProgressUnused
    /\ LateUnused
    /\ fs_pc = "ready"
    /\ fs_in \in ShareInputs
    /\ fs_out = NoValue

\* lines 142-151: ai_process.set_response_timeout(effective_provider_timeout)
ShareCompute ==
    /\ fs_pc = "ready"
    /\ fs_out' = ShareTimeout(fs_in.remaining, fs_in.n, fs_in.i, fs_in.provider_timeout,
                              ShareSecond)
    /\ fs_pc' = "done"
    /\ UNCHANGED <<interrupted, exec_vars, eval_vars, drv_vars, cp_vars, ser_vars, pp_vars, ex_vars, pg_vars, late_vars,
                   fs_in>>

NextShare == ShareCompute

SpecShare == InitShare /\ [][NextShare]_vars

\* C13: the timeout given to the provider call of the requirement at 0-based
\* position i of n is min(provider_timeout, max(1 second, remaining / (n - i)))
\* (the quotient q of the Duration division: q * (n - i) <= remaining <
\* (q + 1) * (n - i)); it never exceeds provider_timeout and the fair share is
\* never below one second.
C13_FairShareTimeout ==
    fs_pc = "done" =>
        \E q \in 0..fs_in.remaining :
            LET pending == fs_in.n - fs_in.i
                share == IF q > ShareSecond THEN q ELSE ShareSecond
            IN  /\ q * pending <= fs_in.remaining
                /\ fs_in.remaining < (q + 1) * pending
                /\ share >= ShareSecond
                /\ fs_out <= fs_in.provider_timeout
                /\ fs_out <= share
                /\ fs_out \in {fs_in.provider_timeout, share}

C13_Witness ==
    /\ fs_pc = "done"
    /\ fs_in.i > 0
    /\ fs_in.remaining \div (fs_in.n - fs_in.i) < ShareSecond
    /\ fs_in.provider_timeout > ShareSecond
    /\ fs_out = ShareSecond

(***************************************************************************)
(* SpecResume: EngineRuntime::run resumed from the state.json of a         *)
(* checkpoint that was written before the last requirement was added to    *)
(* PRD.md.  resume() parses the current PRD.md and passes the loaded state *)
(* to run unchanged (app.rs lines 112-147, driver.rs line 72).             *)
(***************************************************************************)
StaleCheckpointStates ==
    { [ id \in ReqIds \ {Requirement(NumReqs).id} |-> st[id] ] : st \in CheckpointStates }

InitResume ==
    /\ interrupted = FALSE
    /\ MoreUnused
    /\ ExecUnused
    /\ EvalUnused
    /\ run_cfg \in { c \in RunConfigs : c.resumed }
    /\ iteration = 1
    /\ req_status \in StaleCheckpointStates
    /\ pc = "loop_head"
    /\ previous_status = status_snapshot(req_status)
    /\ req_idx = 0
    /\ response_timeout = run_cfg.provider_timeout
    /\ provider_result = NoValue
    /\ cmds_left = 0
    /\ acc_idx = 0
    /\ failed_criteria = {}
    /\ acceptance_passed = FALSE
    /\ last_checkpoint = NoValue
    /\ now = 0
    /\ run_ret = NoValue
    /\ iter_log = <<>>
    /\ full_pass_iter = 0

SpecResume == InitResume /\ [][Next]_vars

\* C14: at every point of a run the engine state holds a record for each
\* requirement id of the document and for no other id, and a requirement
\* validated in the current iteration has the outcome in its record.
C14_OneRecordPerRequirement ==
    /\ DOMAIN req_status = ReqIds
    /\ \A k \in 1..Len(iter_log) :
          iter_log[k][1] = "validate" =>
              /\ Requirement(iter_log[k][2]).id \in DOMAIN req_status
              /\ req_status[Requirement(iter_log[k][2]).id].status \in {"done", "failed"}

(***************************************************************************)
(* SpecCkpt: CheckpointManager (checkpoint/saver.rs) on one checkpoint     *)
(* root.  A directory name is kept as the characters that follow           *)
(* "checkpoint_": the digits of the iteration number, then 10 for the      *)
(* suffix "_dup" ('_' sorts after every digit).  A save is one step; the   *)
(* caller makes no other save after one that failed.                       *)
(***************************************************************************)
MaxKeep == 2           \* checkpoint.max_checkpoints ranges over 0..MaxKeep
MaxSaves == 5          \* save calls on one root

\* iteration numbers passed to save (a resumed run saves a number again)
CkptIterations == {1, 2, 999, 1000}

\* format!("{:03}", iteration): at least three digits, zero padded
Digits(n) ==
    IF n < 1000
      THEN << n \div 100, (n \div 10) % 10, n % 10 >>
      ELSE << n \div 1000, (n \div 100) % 10, (n \div 10) % 10, n % 10 >>

\* lines 35 and 37: checkpoint_{:03} and checkpoint_{:03}_dup
DirName(iter, dup) == IF dup THEN Append(Digits(iter), 10) ELSE Digits(iter)

\* the order of entry.file_name(): OsString comparison, byte by byte
NameLess(a, b) ==
    \E k \in 1..(Len(a) + 1) :
        /\ \A j \in 1..(k - 1) : j <= Len(b) /\ a[j] = b[j]
        /\ \/ k = Len(a) + 1 /\ Len(b) >= k
           \/ k <= Len(a) /\ k <= Len(b) /\ a[k] < b[k]

NamesOf(dirs) == { d.name : d \in dirs }

\* the files of a checkpoint directory, each given by the save call that
\* wrote it (0: not there)
NoFiles == [state |-> 0, report |-> 0, prd |-> 0, snapshot |-> 0]

\* lines 35-38: the directory save writes into
TargetName(dirs, iter) ==
    IF DirName(iter, FALSE) \in NamesOf(dirs) THEN DirName(iter, TRUE)
                                               ELSE DirName(iter, FALSE)

\* prune_old_checkpoints, lines 84-95: the first `count` entries in name order
FirstByName(dirs, count) ==
    { d \in dirs : Cardinality({ e \in dirs : NameLess(e.name, d.name) }) < count }

RemoveCount(dirs, keep) ==
    IF Cardinality(dirs) <= keep THEN 0 ELSE Cardinality(dirs) - keep

\* the operation that fails during a save: none, create_dir_all, the write of
\* iteration_report.json, the workspace snapshot copy, the reading of one
\* entry of the root in the pruning, remove_dir_all in the pruning
SaveOutcomes == {"none", "mkdir", "write", "copy", "list", "prune"}

\* the files in the target directory when the save stops with `outcome`
FilesAfter(old, call, outcome) ==
    CASE outcome = "mkdir" -> old
      [] outcome = "write" -> [old EXCEPT !.state = call]
      [] outcome = "copy"  -> [old EXCEPT !.state = call, !.report = call, !.prd = call]
      [] OTHER             -> [state |-> call, report |-> call, prd |-> call,
                               snapshot |-> call]

\* CheckpointManager::new: max_keep.max(1), on a root with no checkpoint yet
InitCkpt ==
    /\ interrupted = FALSE
    /\ ExecUnused
    /\ EvalUnused
    /\ DrvUnused
    /\ ShareUnused
    /\ SerUnused
    /\ PromptUnused
    /\ ExtractUnused
    /\ ProgressUnused
    /\ LateUnused
    /\ cp_pc = "ready"
    /\ \E k \in 0..MaxKeep : cp_keep = IF k < 1 THEN 1 ELSE k
    /\ cp_dirs = {}
    /\ cp_calls = 0
    /\ cp_made = 0
    /\ cp_ret = NoValue
    /\ cp_fault = "none"

\* CheckpointManager::save(iteration, ..), lines 27-75, with its pruning
Save ==
    /\ cp_pc = "ready"
    /\ cp_calls < MaxSaves
    /\ \E iter \in CkptIterations, outcome \in SaveOutcomes :
         LET call == cp_calls + 1
             name == TargetName(cp_dirs, iter)
             exists == name \in NamesOf(cp_dirs)
             old == IF exists THEN CHOOSE d \in cp_dirs : d.name = name
                              ELSE [name |-> name, created |-> cp_made + 1, files |-> NoFiles]
             written == [old EXCEPT !.files = FilesAfter(old.files, call, outcome)]
             dirs == IF outcome = "mkdir" THEN cp_dirs
                                          ELSE (cp_dirs \ {old}) \cup {written}
             count == RemoveCount(dirs, cp_keep)
         IN  /\ cp_calls' = call
             /\ cp_fault' = outcome
             /\ cp_made' = IF outcome = "mkdir" \/ exists THEN cp_made ELSE cp_made + 1
             /\ CASE outcome = "none" ->
                        /\ cp_dirs' = dirs \ FirstByName(dirs, count)
                        /\ cp_ret' = [ok |-> TRUE, path |-> name]
                        /\ cp_pc' = "ready"
                  [] outcome = "list" ->
                        \* lines 78-82: read_dir(..).flatten() drops the entry
                        \* that could not be read; the others are pruned
                        /\ \E u \in dirs :
                              LET entries == dirs \ {u}
                              IN  cp_dirs' = dirs \ FirstByName(entries,
                                                       RemoveCount(entries, cp_keep))
                        /\ cp_ret' = [ok |-> TRUE, path |-> name]
                        /\ cp_pc' = "ready"
                  [] outcome = "prune" ->
                        \* remove_dir_all fails on the j-th entry to remove
                        /\ count > 0
                        /\ \E j \in 1..count : cp_dirs' = dirs \ FirstByName(dirs, j - 1)
                        /\ cp_ret' = ExecErr("failed to remove old checkpoint")
                        /\ cp_pc' = "failed"
                  [] OTHER ->
                        /\ cp_dirs' = dirs
                        /\ cp_ret' = ExecErr(outcome)
                        /\ cp_pc' = "failed"
    /\ UNCHANGED <<interrupted, exec_vars, eval_vars, drv_vars, fs_vars, ser_vars, pp_vars, ex_vars, pg_vars, late_vars,
                   cp_keep>>

NextCkpt == Save

SpecCkpt == InitCkpt /\ [][NextCkpt]_vars

Min(a, b) == IF a < b THEN a ELSE b

\* C15: after any sequence of successful saves with retention K, exactly
\* min(K, directories created) checkpoint directories remain under the root
\* and they are the most recently created ones.
C15_KeepsMostRecent ==
    cp_pc = "ready" =>
        /\ Cardinality(cp_dirs) = Min(cp_keep, cp_made)
        /\ { d.created : d \in cp_dirs } = (cp_made - Min(cp_keep, cp_made) + 1)..cp_made

\* C17: a failure while writing, copying or pruning a checkpoint makes save
\* return an error; the directory it was writing is left in place.
C17_FailureIsReturned ==
    cp_fault # "none" =>
        /\ ~cp_ret.ok
        /\ cp_pc = "failed"
        /\ cp_fault \in {"write", "copy"} =>
              \E d \in cp_dirs : d.files.state = cp_calls /\ d.files.snapshot # cp_calls

\* C16: a save never writes into a checkpoint directory that already exists:
\* every directory that is still there after the save holds the files it held.
C16_NeverOverwrites ==
    [][\A d \in cp_dirs : \A e \in cp_dirs' : e.name = d.name => e.files = d.files]_vars

(***************************************************************************)
(* SpecSer: an EngineState written to state.json by                        *)
(* serde_json::to_string_pretty, read back by serde_json::from_str in      *)
(* resume(), and used by run as the state of the resumed run.  A JSON      *)
(* object is a record that has a field exactly when the text has the key.  *)
(***************************************************************************)
MaxSerIter == 3        \* state.iteration ranges over 0..MaxSerIter
MaxSerAttempts == 2    \* attempts ranges over 0..MaxSerAttempts

ReqStatuses == {"todo", "in_progress", "done", "blocked", "failed"}

SerRecords ==
    [ status : ReqStatuses,
      attempts : 0..MaxSerAttempts,
      evidence : {NoValue, Some([exit_code |-> KilledExitCode])},
      last_error : {NoValue, Some("pass condition not satisfied")} ]

SerStates == [ iteration : 0..MaxSerIter, req_status : [ReqIds -> SerRecords] ]

\* #[derive(Serialize)] of ReqRecord: status and attempts always, evidence and
\* last_error only when they are Some (skip_serializing_if = "Option::is_none")
RecordToJson(rec) ==
    CASE rec.evidence = NoValue /\ rec.last_error = NoValue ->
            [status |-> rec.status, attempts |-> rec.attempts]
      [] rec.evidence = NoValue /\ rec.last_error # NoValue ->
            [status |-> rec.status, attempts |-> rec.attempts,
             last_error |-> rec.last_error.value]
      [] rec.evidence # NoValue /\ rec.last_error = NoValue ->
            [status |-> rec.status, attempts |-> rec.attempts,
             evidence |-> rec.evidence.value]
      [] OTHER ->
            [status |-> rec.status, attempts |-> rec.attempts,
             evidence |-> rec.evidence.value, last_error |-> rec.last_error.value]

RecordFromJsonNoError(obj) ==
    [ status |-> obj.status,
      attempts |-> obj.attempts,
      evidence |-> IF "evidence" \in DOMAIN obj THEN Some(obj.evidence) ELSE NoValue,
      last_error |-> NoValue ]

\* #[derive(Deserialize)] of ReqRecord: a missing Option field is None
RecordFromJson(obj) ==
    [ status |-> obj.status,
      attempts |-> obj.attempts,
      evidence |-> IF "evidence" \in DOMAIN obj THEN Some(obj.evidence) ELSE NoValue,
      last_error |-> IF "last_error" \in DOMAIN obj THEN Some(obj.last_error) ELSE NoValue ]

\* EngineState: iteration and the map req_status
StateToJson(st) ==
    [ iteration |-> st.iteration,
      req_status |-> [ id \in DOMAIN st.req_status |-> RecordToJson(st.req_status[id]) ] ]

StateFromJson(obj) ==
    [ iteration |-> obj.iteration,
      req_status |-> [ id \in DOMAIN obj.req_status |-> RecordFromJson(obj.req_status[id]) ] ]

InitSer ==
    /\ interrupted = FALSE
    /\ ExecUnused
    /\ EvalUnused
    /\ DrvUnused
    /\ ShareUnused
    /\ CkptUnused
    /\ PromptUnused
    /\ ExtractUnused
    /\ ProgressUnused
    /\ LateUnused
    /\ ser_pc = "ready"
    /\ ser_state \in SerStates
    /\ ser_json = NoValue
    /\ ser_loaded = NoValue
    /\ ser_run = NoValue

\* saver.rs lines 51-54: state.json of a checkpoint
SerSave ==
    /\ ser_pc = "ready"
    /\ ser_json' = StateToJson(ser_state)
    /\ ser_pc' = "saved"
    /\ UNCHANGED <<interrupted, exec_vars, eval_vars, drv_vars, fs_vars, cp_vars, pp_vars, ex_vars, pg_vars, late_vars,
                   ser_state, ser_loaded, ser_run>>

\* app.rs lines 128-131: resume() reads and parses state.json
SerLoad ==
    /\ ser_pc = "saved"
    /\ ser_loaded' = StateFromJson(ser_json)
    /\ ser_pc' = "loaded"
    /\ UNCHANGED <<interrupted, exec_vars, eval_vars, drv_vars, fs_vars, cp_vars, pp_vars, ex_vars, pg_vars, late_vars,
                   ser_state, ser_json, ser_run>>

\* driver.rs lines 72 and 110: run takes the loaded state as it is and starts
\* its first iteration with state.iteration.saturating_add(1) (the counter
\* stays far below the 32-bit maximum here)
SerResume ==
    /\ ser_pc = "loaded"
    /\ ser_run' = [ser_loaded EXCEPT !.iteration = @ + 1]
    /\ ser_pc' = "resumed"
    /\ UNCHANGED <<interrupted, exec_vars, eval_vars, drv_vars, fs_vars, cp_vars, pp_vars, ex_vars, pg_vars, late_vars,
                   ser_state, ser_json, ser_loaded>>

NextSer ==
    \/ SerSave
    \/ SerLoad
    \/ SerResume

SpecSer == InitSer /\ [][NextSer]_vars

MaxProviderOps == 4    \* at most this many operations on one provider

Prompts == {"", "implement REQ-1", "implement REQ-2"}

NoPendingPrompt == "provider has no pending prompt; send() must be called first"

\* what run_prompt can return for a prompt: an empty prompt is refused, any
\* other is given to the command, which replies, times out, fails or is
\* interrupted
RunPromptReturns(prompt) ==
    IF prompt = ""
    THEN { ExecErr("provider prompt is empty") }
    ELSE { [ok |-> TRUE, text |-> "reply"],
           ExecErr("provider timed out"),
           ExecErr("provider exited with code 1"),
           ExecErr("execution interrupted by Ctrl+C") }

PendingKept(pending) == pending

\* Option::take leaves None in self.pending_prompt
PendingAfterTake(pending) == NoValue

\* CliPrintProvider::new
InitPrompt ==
    /\ interrupted = FALSE
    /\ ExecUnused
    /\ EvalUnused
    /\ DrvUnused
    /\ ShareUnused
    /\ CkptUnused
    /\ SerUnused
    /\ ExtractUnused
    /\ ProgressUnused
    /\ LateUnused
    /\ pp_op = "new"
    /\ pp_pending = NoValue
    /\ pp_ret = NoValue
    /\ pp_sends = <<>>
    /\ pp_ops = 0

PromptOp(op) ==
    /\ pp_op \in {"new", "send", "read_output", "restart"}
    /\ pp_ops < MaxProviderOps
    /\ pp_op' = op
    /\ pp_ops' = pp_ops + 1
    /\ UNCHANGED <<interrupted, exec_vars, eval_vars, drv_vars, fs_vars, cp_vars, ser_vars,
                   ex_vars, pg_vars, late_vars>>

\* send
Send ==
    \E input \in Prompts :
        /\ PromptOp("send")
        /\ pp_pending' = Some(input)
        /\ pp_ret' = [ok |-> TRUE]
        /\ pp_sends' = Append(pp_sends, input)

\* read_output
ReadOutput ==
    /\ PromptOp("read_output")
    /\ pp_pending' = PendingAfterTake(pp_pending)
    /\ IF pp_pending = NoValue
       THEN pp_ret' = ExecErr(NoPendingPrompt)
       ELSE pp_ret' \in RunPromptReturns(pp_pending.value)
    /\ pp_sends' = <<>>

\* restart
Restart ==
    /\ PromptOp("restart")
    /\ pp_pending' = NoValue
    /\ pp_ret' = [ok |-> TRUE]
    /\ pp_sends' = <<>>

NextPrompt ==
    \/ Send
    \/ ReadOutput
    \/ Restart

SpecPrompt == InitPrompt /\ [][NextPrompt]_vars

\* the prompt that is pending is the latest one sent since the latest
\* read_output or restart, and none is pending when none was sent
OnePendingPrompt ==
    pp_pending = IF pp_sends = <<>> THEN NoValue ELSE Some(pp_sends[Len(pp_sends)])

\* C19: at most one prompt is pending, the latest one sent (a send replaces
\* the pending prompt); read_output fails with the "no pending prompt" error
\* exactly when no send happened since the latest read_output or restart;
\* after any read_output, successful or failed, and after restart no prompt
\* is pending.
C19_PendingPrompt ==
    /\ [](pp_op \in {"new", "send", "read_output", "restart"} => OnePendingPrompt)
    /\ [](pp_op \in {"read_output", "restart"} => pp_pending = NoValue)
    /\ [][ pp_op' = "read_output" /\ pp_ops' = pp_ops + 1 =>
              (pp_ret' = ExecErr(NoPendingPrompt) <=> pp_sends = <<>>) ]_vars

\* a read_output that finds nothing pending, as the last of the operations
C19_Witness ==
    /\ pp_op = "read_output"
    /\ pp_ops = MaxProviderOps
    /\ pp_ret = ExecErr(NoPendingPrompt)
    /\ pp_pending = NoValue

(***************************************************************************)
(* SpecExtract: extract_commands_from_output (core/process.rs) applied to  *)
(* a provider output.  The output is its plain lines and fenced code       *)
(* blocks in text order; a line is what precedes its text ("CMD:", "$" or  *)
(* nothing) and the text itself, which is never empty here, so that the    *)
(* two line patterns capture within one line; a command is the sequence of *)
(* its lines.                                                              *)
(***************************************************************************)
MaxItems == 3          \* plain lines and fenced blocks in one provider output

Line(prefix, body) == [prefix |-> prefix, body |-> body]

CommentBodies == {"# no-op", "# note"}

PlainLines ==
    { Line("", "cargo build"), Line("$", "cargo build"), Line("$", "# no-op") }
    \cup { Line("CMD:", b) : b \in {"# no-op", "cargo build", "cargo test"} }

BlockLines ==
    { << Line("", "# note") >>,
      << Line("", "cargo build") >>,
      << Line("", "# note"), Line("", "cargo build") >>,
      << Line("$", "cargo build") >> }

FenceLanguages == {"bash", "SH", "python"}

TextItems ==
    { [kind |-> "line", line |-> l] : l \in PlainLines }
    \cup { [kind |-> "block", lang |-> g, lines |-> ls] :
              g \in FenceLanguages, ls \in BlockLines }

\* lang.trim().to_ascii_lowercase()
to_ascii_lowercase(lang) == IF lang = "SH" THEN "sh" ELSE lang

is_shell_language(lang) == to_ascii_lowercase(lang) \in {"bash", "sh", "shell", "zsh"}

\* line.trim(): !line.is_empty() && !line.starts_with('#')
IsExecutableLine(l) == ~(l.prefix = "" /\ (l.body = "" \/ l.body \in CommentBodies))

\* shell_block_to_command: None for a block without an executable line,
\* otherwise the block's lines joined into one command
shell_block_to_command(lines) ==
    IF lines = <<>> \/ ~(\E i \in 1..Len(lines) : IsExecutableLine(lines[i]))
    THEN NoValue
    ELSE Some(lines)

NeverCommentOnly(cmd) == FALSE

is_comment_only_command(cmd) ==
    cmd = <<>> \/ ~(\E i \in 1..Len(cmd) : IsExecutableLine(cmd[i]))

\* the commands of the fenced shell blocks, in text order (lines 115-137)
RECURSIVE BlockCommands(_)
BlockCommands(text) ==
    IF text = <<>> THEN <<>>
    ELSE LET item == Head(text)
             found == IF item.kind = "block" /\ is_shell_language(item.lang)
                      THEN shell_block_to_command(item.lines)
                      ELSE NoValue
         IN  (IF found = NoValue THEN <<>> ELSE <<found.value>>)
             \o BlockCommands(Tail(text))

\* every line of the normalized text, in order: the two line patterns are
\* matched against the whole text, the inside of fenced blocks included
RECURSIVE AllLines(_)
AllLines(text) ==
    IF text = <<>> THEN <<>>
    ELSE (IF Head(text).kind = "block" THEN Head(text).lines ELSE <<Head(text).line>>)
         \o AllLines(Tail(text))

\* captures_iter of a line pattern (lines 139-149): what follows the prefix
LineCommands(text, prefix) ==
    LET hits == SelectSeq(AllLines(text), LAMBDA l : l.prefix = prefix)
    IN  [ i \in 1..Len(hits) |-> << Line("", hits[i].body) >> ]

\* Vec::dedup: of consecutive equal elements only the first is kept
RECURSIVE dedup(_)
dedup(cmds) ==
    IF Len(cmds) < 2 THEN cmds
    ELSE IF cmds[1] = cmds[2] THEN dedup(Tail(cmds))
    ELSE <<cmds[1]>> \o dedup(Tail(cmds))

\* lines 151-152: the two retain calls
Retained(cmds) ==
    SelectSeq(SelectSeq(cmds, LAMBDA c : c # <<>>), LAMBDA c : ~is_comment_only_command(c))

extract_commands_from_output(text) ==
    dedup(Retained(BlockCommands(text) \o LineCommands(text, "CMD:")
                   \o LineCommands(text, "$")))

RECURSIVE SeqsUpTo(_, _)
SeqsUpTo(S, n) ==
    IF n = 0 THEN {<<>>}
    ELSE LET shorter == SeqsUpTo(S, n - 1)
         IN  shorter \cup { Append(q, x) : q \in shorter, x \in S }

InitExtract ==
    /\ interrupted = FALSE
    /\ ExecUnused
    /\ EvalUnused
    /\ DrvUnused
    /\ ShareUnused
    /\ CkptUnused
    /\ SerUnused
    /\ PromptUnused
    /\ ProgressUnused
    /\ LateUnused
    /\ ex_pc = "ready"
    /\ ex_text \in SeqsUpTo(TextItems, MaxItems)
    /\ ex_cmds = <<>>

Extract ==
    /\ ex_pc = "ready"
    /\ ex_cmds' = extract_commands_from_output(ex_text)
    /\ ex_pc' = "extracted"
    /\ UNCHANGED <<interrupted, exec_vars, eval_vars, drv_vars, fs_vars, cp_vars, ser_vars,
                   pp_vars, pg_vars, late_vars, ex_text>>

NextExtract == Extract

SpecExtract == InitExtract /\ [][NextExtract]_vars

\* the commands of the three groups in their order, without the empty and the
\* comment-only ones
CollectedInOrder ==
    SelectSeq(BlockCommands(ex_text) \o LineCommands(ex_text, "CMD:")
              \o LineCommands(ex_text, "$"),
              LAMBDA c : c # <<>> /\ \E i \in 1..Len(c) : IsExecutableLine(c[i]))

\* of equal elements only the first occurrence is kept
RECURSIVE KeepFirstOccurrence(_)
KeepFirstOccurrence(cmds) ==
    IF cmds = <<>> THEN <<>>
    ELSE LET rest == KeepFirstOccurrence(SubSeq(cmds, 1, Len(cmds) - 1))
             last == cmds[Len(cmds)]
         IN  IF \E i \in 1..Len(rest) : rest[i] = last THEN rest ELSE Append(rest, last)

\* C24: extract returns the commands in the order fenced shell blocks, CMD:
\* lines, $ lines, each group in text order, and no command occurs twice in
\* the result: of equal commands only the first occurrence is kept, also when
\* they are not adjacent in the collected list.
C24_OrderedWithoutDuplicates ==
    ex_pc = "extracted" =>
        /\ \A i, j \in 1..Len(ex_cmds) : i # j => ex_cmds[i] # ex_cmds[j]
        /\ ex_cmds = KeepFirstOccurrence(CollectedInOrder)

\* the fenced shell blocks of the output that hold an executable line
ShellBlocks ==
    { i \in 1..Len(ex_text) :
        /\ ex_text[i].kind = "block"
        /\ is_shell_language(ex_text[i].lang)
        /\ \E k \in 1..Len(ex_text[i].lines) : IsExecutableLine(ex_text[i].lines[k]) }

Returned == { ex_cmds[i] : i \in 1..Len(ex_cmds) }

\* the command is a shell block's, or is captured from a line that is not
\* inside a shell block
FromOutsideShellBlocks(cmd) ==
    \/ \E i \in ShellBlocks : ex_text[i].lines = cmd
    \/ \E i \in 1..Len(ex_text) :
          /\ i \notin ShellBlocks
          /\ LET lines == IF ex_text[i].kind = "block" THEN ex_text[i].lines
                          ELSE <<ex_text[i].line>>
             IN  \E k \in 1..Len(lines) :
                    /\ lines[k].prefix \in {"CMD:", "$"}
                    /\ cmd = << Line("", lines[k].body) >>

\* C25: each fenced block whose language is bash, sh, shell or zsh in any
\* letter case yields one command holding all its lines, and the layers are
\* disjoint: a line inside such a block is not also returned as a command of
\* its own by the CMD: scan or the $ scan.
C25_BlocksWholeAndDisjoint ==
    ex_pc = "extracted" =>
        /\ \A i \in ShellBlocks : ex_text[i].lines \in Returned
        /\ \A cmd \in Returned : FromOutsideShellBlocks(cmd)

\* C26: no returned command is empty or made only of blank and #-comment
\* lines: a comment captured from a CMD: or $ line and a comment-only shell
\* block are dropped, while a shell block with an executable line is kept
\* whole, its comment lines included.
C26_NoCommentOnlyCommand ==
    ex_pc = "extracted" =>
        /\ \A cmd \in Returned :
              /\ cmd # <<>>
              /\ \E k \in 1..Len(cmd) :
                    ~(cmd[k].prefix = "" /\ (cmd[k].body = "" \/ cmd[k].body \in CommentBodies))
        /\ \A i \in 1..Len(ex_text) :
              /\ ex_text[i].kind = "block"
              /\ is_shell_language(ex_text[i].lang)
              /\ ex_text[i].lines = << Line("", "# note"), Line("", "cargo build") >>
              => ex_text[i].lines \in Returned

\* 'CMD: # no-op', a comment-only block and a block with a leading comment:
\* only the last one is returned
C26_Witness ==
    /\ ex_pc = "extracted"
    /\ ex_text = << [kind |-> "line", line |-> Line("CMD:", "# no-op")],
                    [kind |-> "block", lang |-> "bash", lines |-> << Line("", "# note") >>],
                    [kind |-> "block", lang |-> "SH",
                     lines |-> << Line("", "# note"), Line("", "cargo build") >>] >>
    /\ ex_cmds = << << Line("", "# note"), Line("", "cargo build") >> >>

(***************************************************************************)
(* SpecProgress: EngineState::overall_progress read after each of a        *)
(* sequence of update calls that set status Done.  The f64 quotient        *)
(* done / len is kept as the fraction num / den.                           *)
(***************************************************************************)
MaxProgressReqs == 2   \* records in the state
MaxProgressOps == 3    \* update calls

ProgressId(n) == <<"REQ", n>>

ProgressCountsFailed(records) ==
    IF DOMAIN records = {} THEN [num |-> 0, den |-> 1]
    ELSE [ num |-> Cardinality({ id \in DOMAIN records :
                                   records[id].status \in {"done", "failed"} }),
           den |-> Cardinality(DOMAIN records) ]

\* EngineState::overall_progress
overall_progress(records) ==
    IF DOMAIN records = {} THEN [num |-> 0, den |-> 1]
    ELSE [ num |-> Cardinality({ id \in DOMAIN records : records[id].status = "done" }),
           den |-> Cardinality(DOMAIN records) ]

\* the evaluations that set status Done
DoneEvals ==
    { evaluate_requirement_dry_run,
      [ status |-> "done", evidence |-> Some([exit_code |-> 0]), error |-> NoValue,
        attempt_increment |-> 1 ] }

InitProgress ==
    /\ interrupted = FALSE
    /\ ExecUnused
    /\ EvalUnused
    /\ DrvUnused
    /\ ShareUnused
    /\ CkptUnused
    /\ SerUnused
    /\ PromptUnused
    /\ ExtractUnused
    /\ LateUnused
    /\ pg_pc = "ready"
    /\ \E n \in 0..MaxProgressReqs :
          pg_status \in [ { ProgressId(k) : k \in 1..n } ->
                           { [DefaultReqRecord EXCEPT !.status = st] : st \in ReqStatuses } ]
    /\ pg_before = NoValue
    /\ pg_progress = overall_progress(pg_status)
    /\ pg_ops = 0

\* state.update(id, Done, ..) for an id of the state or an unknown one, then
\* overall_progress
UpdateDone ==
    /\ pg_pc \in {"ready", "updated"}
    /\ pg_ops < MaxProgressOps
    /\ \E k \in 1..(MaxProgressReqs + 1), eval \in DoneEvals :
          LET after == update(pg_status, ProgressId(k), eval)
          IN  /\ pg_status' = after
              /\ pg_progress' = overall_progress(after)
    /\ pg_before' = pg_progress
    /\ pg_ops' = pg_ops + 1
    /\ pg_pc' = "updated"
    /\ UNCHANGED <<interrupted, exec_vars, eval_vars, drv_vars, fs_vars, cp_vars, ser_vars,
                   pp_vars, ex_vars, late_vars>>

NextProgress == UpdateDone

SpecProgress == InitProgress /\ [][NextProgress]_vars

\* C29: overall_progress lies in [0, 1]; it is 0 when no record is Done and
\* when there are no records; it is 1 exactly when all records of a non-empty
\* state are Done, so that all_done holds iff it is 1 for a non-empty state;
\* and it never decreases across update calls that only set status Done.
C29_ProgressBounds ==
    pg_pc \in {"ready", "updated"} =>
        LET ids == DOMAIN pg_status
            allDone == \A id \in ids : pg_status[id].status = "done"
        IN  /\ pg_progress.den > 0
            /\ 0 <= pg_progress.num /\ pg_progress.num <= pg_progress.den
            /\ (\A id \in ids : pg_status[id].status # "done") => pg_progress.num = 0
            /\ ids # {} => (pg_progress.num = pg_progress.den <=> allDone)
            /\ ids # {} => (all_done(pg_status) <=> pg_progress.num = pg_progress.den)
            /\ pg_pc = "updated" =>
                  pg_before.num * pg_progress.den <= pg_progress.num * pg_before.den

\* the last of the update calls completes a state of MaxProgressReqs records
C29_Witness ==
    /\ pg_pc = "updated"
    /\ pg_ops = MaxProgressOps
    /\ DOMAIN pg_status = { ProgressId(k) : k \in 1..MaxProgressReqs }
    /\ pg_progress.num = pg_progress.den
    /\ pg_before.num < pg_before.den
    /\ \E id \in DOMAIN pg_status : pg_status[id].attempts = 0

(***************************************************************************)
(* SpecAttempts: the attempts counter of one requirement's record under    *)
(* successive requirement steps (evaluate_requirement or its dry-run       *)
(* variant, then EngineState::update).  The counter is a u32; it is held   *)
(* as its two 16-bit halves so that values next to u32::MAX are counted    *)
(* with their real width.                                                  *)
(***************************************************************************)
MaxAttemptSteps == 2   \* requirement steps applied to the record

Half == 65536          \* 2^16: a u32 is hi * Half + lo

U32(n) == [hi |-> n \div Half, lo |-> n % Half]

U32Max == [hi |-> Half - 1, lo |-> Half - 1]

\* a <= b
U32LessEq(a, b) == a.hi < b.hi \/ (a.hi = b.hi /\ a.lo <= b.lo)

\* b - a, for counters less than two halves apart
Gap(a, b) == (b.hi - a.hi) * Half + (b.lo - a.lo)

SaturatingAddWraps(a, n) ==
    LET lo == a.lo + n
    IN  [ hi |-> (a.hi + (lo \div Half)) % Half, lo |-> lo % Half ]

\* u32::saturating_add(a, n), n below Half
saturating_add(a, n) ==
    LET lo == a.lo + n
        hi == a.hi + (lo \div Half)
    IN  IF hi >= Half THEN U32Max ELSE [hi |-> hi, lo |-> lo % Half]

\* the counter before the first step: a fresh record, a record of a few
\* attempts, and records loaded from a state.json with a counter at or next
\* to u32::MAX
AttemptsBefore ==
    { U32(n) : n \in 0..1 }
    \cup { [hi |-> Half - 1, lo |-> Half - 1 - k] : k \in 0..(MaxRetry + 2) }

AttemptConditions ==
    { c \in Conditions : c.text \in {"exit code = 0", "exit code = 99999999999"} }

\* what CommandExecutor::run returns with the executor's max_retry
AttemptReturns(maxRetry) ==
    { ExecOk(ResultWithOutput(code, FALSE, att,
                              [ stdout_cov |-> <<>>, stderr_cov |-> <<>>,
                                warning |-> FALSE, needles |-> {} ])) :
        code \in {0, 1}, att \in 1..Attempts(maxRetry) }
    \cup { ExecErr("failed to spawn command") }

InitAttempts ==
    /\ interrupted = FALSE
    /\ ExecUnused
    /\ EvalUnused
    /\ DrvUnused
    /\ ShareUnused
    /\ CkptUnused
    /\ SerUnused
    /\ PromptUnused
    /\ ExtractUnused
    /\ ProgressUnused
    /\ LoopUnused
    /\ ReportUnused
    /\ StepUnused
    /\ AcceptUnused
    /\ GuardUnused
    /\ at_pc = "ready"
    /\ at_cfg \in [dry_run : BOOLEAN, max_retry : 0..MaxRetry]
    /\ at_cond \in AttemptConditions
    /\ at_attempts \in AttemptsBefore
    /\ at_before = NoValue
    /\ at_last = NoValue
    /\ at_steps = 0

\* driver.rs lines 296-331: the evaluation of the requirement, then
\* state.update(.., eval.attempt_increment)
AttemptStep ==
    /\ at_pc \in {"ready", "stepped"}
    /\ at_steps < MaxAttemptSteps
    /\ IF at_cfg.dry_run
         THEN /\ at_last' = NoValue
              /\ at_attempts' = saturating_add(at_attempts,
                                     evaluate_requirement_dry_run.attempt_increment)
         ELSE \E ret \in AttemptReturns(at_cfg.max_retry) :
                /\ at_last' = ret
                /\ at_attempts' = saturating_add(at_attempts,
                                       evaluate_requirement(at_cond, ret).attempt_increment)
    /\ at_before' = at_attempts
    /\ at_steps' = at_steps + 1
    /\ at_pc' = "stepped"
    /\ UNCHANGED <<interrupted, exec_vars, eval_vars, drv_vars, fs_vars, cp_vars, ser_vars,
                   pp_vars, ex_vars, pg_vars, lp_vars, rp_vars, st_vars, ac_vars, cg_vars,
                   at_cfg,
                   at_cond>>

NextAttempts == AttemptStep

SpecAttempts == InitAttempts /\ [][NextAttempts]_vars

\* what the step is said to add: the attempt number of the validation
\* result, 1 for an executor error, 0 in dry-run
SaidIncrement ==
    IF at_cfg.dry_run THEN 0
    ELSE IF at_last.ok THEN at_last.result.attempt
    ELSE 1

\* C33: a requirement's attempts counter never decreases and saturates at the
\* 32-bit maximum; one requirement step adds the attempt number of the
\* validation CommandResult, which lies in 1..max_retry + 1, adds 1 when the
\* executor returned an error, and adds 0 in dry-run.
C33_AttemptsGrowByAttemptNumber ==
    at_pc = "stepped" =>
        /\ U32LessEq(at_before, at_attempts)
        /\ SaidIncrement \in 0..(at_cfg.max_retry + 1)
        /\ (~at_cfg.dry_run /\ at_last.ok) => SaidIncrement >= 1
        /\ IF at_attempts = U32Max
             THEN Gap(at_before, U32Max) <= SaidIncrement
             ELSE Gap(at_before, at_attempts) = SaidIncrement

C33_Witness ==
    /\ at_pc = "stepped"
    /\ ~at_cfg.dry_run
    /\ at_last.ok
    /\ at_last.result.attempt = 3
    /\ at_before = [hi |-> Half - 1, lo |-> Half - 5]
    /\ at_attempts = [hi |-> Half - 1, lo |-> Half - 2]

(***************************************************************************)
(* SpecLoop: state.iteration over the passes of the loop of                *)
(* EngineRuntime::run.  The counter is a u32 held as its two 16-bit        *)
(* halves; a resumed run starts from the iteration of the loaded           *)
(* state.json, which can be any u32.  What the requirement steps do to the *)
(* records is left out (Spec has it); the interruption flag, the clock and *)
(* the content of the checkpoint root are inputs of each step.             *)
(***************************************************************************)
MaxLoopStarts == 2     \* iterations started by one run

IterationStays(n) == n

\* driver.rs line 110: state.iteration.saturating_add(1)
NextIteration(n) == saturating_add(n, 1)

\* the iteration of a loaded state.json
LoadedIterations ==
    { U32(0), U32(1), U32(Half - 1) }
    \cup { [hi |-> Half - 1, lo |-> Half - 1 - k] : k \in 0..MaxLoopStarts }

\* the stop reasons of the head of the loop and of the requirement steps
HeadStops == {"received Ctrl+C", "reached max_runtime"}

BodyStops ==
    {"received Ctrl+C", "reached max_runtime (0s remaining)", AuthStopReason,
     NotFoundStopReason}

LoopSummary(reason) ==
    [ iterations |-> lp_iteration, stop_reason |-> reason,
      last_checkpoint |-> IF lp_ckpt = NoValue THEN NoValue
                          ELSE Some([number |-> lp_ckpt.number, dup |-> lp_ckpt.dup]) ]

InitLoop ==
    /\ interrupted = FALSE
    /\ ExecUnused
    /\ EvalUnused
    /\ DrvUnused
    /\ ShareUnused
    /\ CkptUnused
    /\ SerUnused
    /\ PromptUnused
    /\ ExtractUnused
    /\ ProgressUnused
    /\ AttemptsUnused
    /\ ReportUnused
    /\ StepUnused
    /\ AcceptUnused
    /\ GuardUnused
    /\ lp_pc = "loop_head"
    /\ lp_cfg \in [resumed : BOOLEAN, checkpoint_enabled : BOOLEAN]
    /\ lp_iteration \in IF lp_cfg.resumed THEN LoadedIterations ELSE {U32(0)}
    /\ lp_ret = NoValue
    /\ lp_ckpt = NoValue
    /\ lp_starts = 0

\* driver.rs lines 88-112: the two checks at the head of the loop, then the
\* start of the iteration
LoopPass ==
    /\ lp_pc = "loop_head"
    /\ \/ \E reason \in HeadStops :
            /\ lp_ret' = LoopSummary(reason)
            /\ lp_pc' = "returned"
            /\ UNCHANGED <<lp_iteration, lp_starts>>
       \/ /\ lp_starts < MaxLoopStarts
          /\ lp_iteration' = NextIteration(lp_iteration)
          /\ lp_starts' = lp_starts + 1
          /\ lp_pc' = "body"
          /\ UNCHANGED lp_ret
    /\ UNCHANGED <<interrupted, exec_vars, eval_vars, drv_vars, fs_vars, cp_vars, ser_vars,
                   pp_vars, ex_vars, pg_vars, at_vars, rp_vars, st_vars, ac_vars, cg_vars,
                   lp_cfg, lp_ckpt>>

\* driver.rs lines 117-140 and 196-210: a requirement step that stops the run
LoopBodyStop ==
    /\ lp_pc = "body"
    /\ \E reason \in BodyStops : lp_ret' = LoopSummary(reason)
    /\ lp_pc' = "returned"
    /\ UNCHANGED <<interrupted, exec_vars, eval_vars, drv_vars, fs_vars, cp_vars, ser_vars,
                   pp_vars, ex_vars, pg_vars, at_vars, rp_vars, st_vars, ac_vars, cg_vars,
                   lp_cfg, lp_iteration, lp_ckpt,
                   lp_starts>>

\* driver.rs lines 361-403 and saver.rs lines 27-54: the end of the iteration;
\* save(state.iteration, .., &state, ..) names the directory after its first
\* argument, with the suffix when the plain name exists, and writes the state
LoopEnd ==
    /\ lp_pc = "body"
    /\ IF lp_cfg.checkpoint_enabled
         THEN \E exists \in BOOLEAN :
                lp_ckpt' = [ number |-> lp_iteration, dup |-> exists,
                             state_iteration |-> lp_iteration, made |-> lp_starts ]
         ELSE UNCHANGED lp_ckpt
    /\ lp_pc' = "loop_head"
    /\ UNCHANGED <<interrupted, exec_vars, eval_vars, drv_vars, fs_vars, cp_vars, ser_vars,
                   pp_vars, ex_vars, pg_vars, at_vars, rp_vars, st_vars, ac_vars, cg_vars,
                   lp_cfg, lp_iteration, lp_ret,
                   lp_starts>>

NextLoop ==
    \/ LoopPass
    \/ LoopBodyStop
    \/ LoopEnd

SpecLoop == InitLoop /\ [][NextLoop]_vars

IterationStarts == lp_pc = "loop_head" /\ lp_pc' = "body"

\* what C34 says of a step apart from the size of the increment
CounterKept ==
    /\ U32LessEq(lp_iteration, lp_iteration')
    /\ ~IterationStarts => lp_iteration' = lp_iteration
    /\ (lp_starts = 0 /\ ~lp_cfg.resumed) => lp_iteration = U32(0)
    /\ lp_pc' = "returned" => lp_ret'.iterations = lp_iteration'
    /\ lp_ckpt' # lp_ckpt =>
          /\ lp_ckpt'.number = lp_iteration
          /\ lp_ckpt'.state_iteration = lp_iteration

MaxReportRecords == 4  \* records in the state
MaxReportReqs == 2     \* requirements in the document

NextActionsLimit == 3  \* .take(3)

\* the evaluations of a requirement outside dry-run
ReportEvals ==
    { evaluate_requirement(c, ret) :
        c \in { d \in Conditions : d.text = "exit code = 0" },
        ret \in AttemptReturns(0) }

\* lines 490-494: the progress of a record, in tenths
ReqProgress(status) ==
    CASE status = "done" -> 10
      [] status = "in_progress" -> 5
      [] OTHER -> 0

NotDoneNumbers(records) ==
    { k \in 1..MaxReportRecords :
        ProgressId(k) \in DOMAIN records /\ records[ProgressId(k)].status # "done" }

NextActionsAll(records) ==
    LET nd == NotDoneNumbers(records)
    IN  [ i \in 1..Cardinality(nd) |->
            ProgressId(CHOOSE k \in nd : Cardinality({ j \in nd : j < k }) = i - 1) ]

\* lines 513-519: the first three records that are not Done, in key order
NextActions(records) ==
    LET nd == NotDoneNumbers(records)
        n == IF Cardinality(nd) < NextActionsLimit THEN Cardinality(nd)
             ELSE NextActionsLimit
    IN  [ i \in 1..n |->
            ProgressId(CHOOSE k \in nd : Cardinality({ j \in nd : j < k }) = i - 1) ]

\* build_iteration_report
build_iteration_report(records, has_progress) ==
    [ req_status |-> [ id \in DOMAIN records |->
                         [ status |-> records[id].status,
                           progress |-> ReqProgress(records[id].status) ] ],
      overall_progress |-> overall_progress(records),
      has_progress |-> has_progress,
      next_actions |-> NextActions(records) ]

InitReport ==
    /\ interrupted = FALSE
    /\ ExecUnused
    /\ EvalUnused
    /\ DrvUnused
    /\ ShareUnused
    /\ CkptUnused
    /\ SerUnused
    /\ PromptUnused
    /\ ExtractUnused
    /\ ProgressUnused
    /\ AttemptsUnused
    /\ LoopUnused
    /\ StepUnused
    /\ AcceptUnused
    /\ GuardUnused
    /\ rp_pc = "iter_start"
    /\ rp_prd \in 0..MaxReportReqs
    /\ \E n \in 0..MaxReportRecords :
          rp_state \in [ { ProgressId(k) : k \in 1..n } ->
                          { [DefaultReqRecord EXCEPT !.status = st] : st \in ReqStatuses } ]
    /\ rp_prev = <<>>
    /\ rp_idx = 0
    /\ rp_report = NoValue

\* driver.rs line 112: let previous_status = state.status_snapshot()
ReportIterStart ==
    /\ rp_pc = "iter_start"
    /\ rp_prev' = status_snapshot(rp_state)
    /\ rp_idx' = 1
    /\ rp_pc' = "requirements"
    /\ UNCHANGED <<interrupted, exec_vars, eval_vars, drv_vars, fs_vars, cp_vars, ser_vars,
                   pp_vars, ex_vars, pg_vars, at_vars, lp_vars, st_vars, ac_vars, cg_vars,
                   rp_prd, rp_state,
                   rp_report>>

\* driver.rs lines 117-331: mark_in_progress, the evaluation, update
ReportReqStep ==
    /\ rp_pc = "requirements"
    /\ rp_idx <= rp_prd
    /\ \E eval \in ReportEvals :
          rp_state' = update(mark_in_progress(rp_state, ProgressId(rp_idx)),
                             ProgressId(rp_idx), eval)
    /\ rp_idx' = rp_idx + 1
    /\ UNCHANGED <<interrupted, exec_vars, eval_vars, drv_vars, fs_vars, cp_vars, ser_vars,
                   pp_vars, ex_vars, pg_vars, at_vars, lp_vars, st_vars, ac_vars, cg_vars,
                   rp_pc, rp_prd, rp_prev,
                   rp_report>>

\* driver.rs lines 361-368: has_progress_since, then build_iteration_report
ReportBuild ==
    /\ rp_pc = "requirements"
    /\ rp_idx > rp_prd
    /\ rp_report' = build_iteration_report(rp_state,
                                           has_progress_since(rp_state, rp_prev))
    /\ rp_pc' = "reported"
    /\ UNCHANGED <<interrupted, exec_vars, eval_vars, drv_vars, fs_vars, cp_vars, ser_vars,
                   pp_vars, ex_vars, pg_vars, at_vars, lp_vars, st_vars, ac_vars, cg_vars,
                   rp_prd, rp_state, rp_prev,
                   rp_idx>>

NextReport ==
    \/ ReportIterStart
    \/ ReportReqStep
    \/ ReportBuild

SpecReport == InitReport /\ [][NextReport]_vars

\* the records that were not Done when the iteration started and are Done now
NewlyDone ==
    { id \in DOMAIN rp_state : rp_prev[id] # "done" /\ rp_state[id].status = "done" }

\* C35: has_progress of an iteration report is true exactly when at least one
\* requirement was not Done when the iteration started and is Done at its
\* end; a requirement that was Done and is Done again does not count.
C35_HasProgressIffNewlyDone ==
    rp_pc = "reported" => (rp_report.has_progress <=> NewlyDone # {})

C35_Witness ==
    /\ rp_pc = "reported"
    /\ ~rp_report.has_progress
    /\ rp_prd = 2
    /\ ProgressId(2) \in DOMAIN rp_state
    /\ rp_prev[ProgressId(1)] = "done"
    /\ rp_state[ProgressId(1)].status = "done"
    /\ rp_prev[ProgressId(2)] = "failed"
    /\ rp_state[ProgressId(2)].status = "failed"

NotDoneRecords == { id \in DOMAIN rp_state : rp_state[id].status # "done" }

\* C39: an iteration report gives progress 1.0 to a Done requirement, 0.5 to
\* an InProgress one and 0.0 to any other; its overall_progress is that of the
\* state at the end of the iteration; it holds min(3, number of requirements
\* not Done) next_actions, each naming a different requirement that is not
\* Done.
C39_ReportContents ==
    rp_pc = "reported" =>
        LET r == rp_report
            count == Cardinality(NotDoneRecords)
        IN  /\ DOMAIN r.req_status = DOMAIN rp_state
            /\ \A id \in DOMAIN rp_state :
                  r.req_status[id].progress =
                      IF rp_state[id].status = "done" THEN 10
                      ELSE IF rp_state[id].status = "in_progress" THEN 5
                      ELSE 0
            /\ r.overall_progress.num * Cardinality(DOMAIN rp_state) =
                  r.overall_progress.den
                    * Cardinality({ id \in DOMAIN rp_state : rp_state[id].status = "done" })
            /\ r.overall_progress.den > 0
            /\ Len(r.next_actions) = IF count < 3 THEN count ELSE 3
            /\ \A i \in 1..Len(r.next_actions) : r.next_actions[i] \in NotDoneRecords
            /\ \A i, j \in 1..Len(r.next_actions) :
                  i # j => r.next_actions[i] # r.next_actions[j]

C39_Witness ==
    /\ rp_pc = "reported"
    /\ Cardinality(NotDoneRecords) = 4
    /\ Len(rp_report.next_actions) = 3
    /\ \E id \in DOMAIN rp_state : rp_report.req_status[id].progress = 5
    /\ rp_prd = 2

(***************************************************************************)
(* SpecStep: one requirement step of EngineRuntime::run from the reply of  *)
(* the provider on: the extracted commands, then the validation.  What     *)
(* executor.run returns for a command is an input of the step that runs    *)
(* it.                                                                     *)
(***************************************************************************)
MaxStepCmds == 3       \* commands extracted from one reply

\* the texts a reply can hold (extract_commands_from_output returns each once)
StepCommands == {"cargo build", "cargo test", "echo ok", "sleep 99"}

ValidateCommand == "validate_command"

\* what executor.run returns for an extracted command: a success, a failure,
\* a timeout, or an error (rejected by the workspace guard, not spawned)
CommandReturns ==
    { ExecOk(ResultWithOutput(o[1], o[2], 1,
                              [ stdout_cov |-> <<>>, stderr_cov |-> <<>>,
                                warning |-> FALSE, needles |-> {} ])) :
        o \in {<<0, FALSE>>, <<1, FALSE>>, <<KilledExitCode, TRUE>>} }
    \cup { ExecErr("requires local Cargo.toml"), ExecErr("failed to spawn command") }

StepCondition == CHOOSE c \in Conditions : c.text = "exit code = 0"

StatusNeedsCommands(ran, eval) ==
    IF \A i \in 1..Len(ran) : ran[i].ret.ok /\ success(ran[i].ret.result)
      THEN eval.status ELSE "failed"

\* driver.rs line 301: let req_status = eval.status
StepStatus(ran, eval) == eval.status

InitStep ==
    /\ interrupted = FALSE
    /\ ExecUnused
    /\ EvalUnused
    /\ DrvUnused
    /\ ShareUnused
    /\ CkptUnused
    /\ SerUnused
    /\ PromptUnused
    /\ ExtractUnused
    /\ ProgressUnused
    /\ AttemptsUnused
    /\ LoopUnused
    /\ ReportUnused
    /\ AcceptUnused
    /\ GuardUnused
    /\ st_pc = "commands"
    /\ st_dry_run \in BOOLEAN
    \* generate_instruction returns no command in dry-run (process.rs 77-82)
    /\ st_cmds \in { q \in SeqsUpTo(StepCommands, MaxStepCmds) :
                       /\ \A i, j \in 1..Len(q) : i # j => q[i] # q[j]
                       /\ st_dry_run => q = <<>> }
    /\ st_ran = <<>>
    /\ st_status = "in_progress"

\* driver.rs lines 247-294: one pass of the loop over instruction.commands
StepRunCommand ==
    /\ st_pc = "commands"
    /\ Len(st_ran) < Len(st_cmds)
    /\ \E ret \in CommandReturns :
          st_ran' = Append(st_ran, [command |-> st_cmds[Len(st_ran) + 1], ret |-> ret])
    /\ UNCHANGED <<interrupted, exec_vars, eval_vars, drv_vars, fs_vars, cp_vars, ser_vars,
                   pp_vars, ex_vars, pg_vars, at_vars, lp_vars, rp_vars, ac_vars, cg_vars,
                   st_pc, st_dry_run,
                   st_cmds, st_status>>

\* driver.rs lines 296-331: the validation and state.update
StepValidate ==
    /\ st_pc = "commands"
    /\ Len(st_ran) = Len(st_cmds)
    /\ IF st_dry_run
         THEN /\ st_status' = StepStatus(st_ran, evaluate_requirement_dry_run)
              /\ UNCHANGED st_ran
         ELSE \E ret \in CommandReturns :
                /\ st_ran' = Append(st_ran, [command |-> ValidateCommand, ret |-> ret])
                /\ st_status' = StepStatus(st_ran, evaluate_requirement(StepCondition, ret))
    /\ st_pc' = "validated"
    /\ UNCHANGED <<interrupted, exec_vars, eval_vars, drv_vars, fs_vars, cp_vars, ser_vars,
                   pp_vars, ex_vars, pg_vars, at_vars, lp_vars, rp_vars, ac_vars, cg_vars,
                   st_dry_run, st_cmds>>

NextStep ==
    \/ StepRunCommand
    \/ StepValidate

SpecStep == InitStep /\ [][NextStep]_vars

\* the calls of executor.run of a complete step, in order
CallsOfStep ==
    IF st_dry_run THEN st_cmds ELSE Append(st_cmds, ValidateCommand)

\* C36: within one requirement step the extracted commands are run one at a
\* time in extraction order, all of them before validate_command; a command
\* that fails, times out or is rejected neither stops the remaining ones nor
\* prevents the validation; the status is decided by the validation alone.
C36_CommandsThenValidation ==
    /\ Len(st_ran) <= Len(CallsOfStep)
    /\ \A i \in 1..Len(st_ran) : st_ran[i].command = CallsOfStep[i]
    /\ st_pc = "commands" => ENABLED NextStep
    /\ st_pc = "validated" =>
          /\ Len(st_ran) = Len(CallsOfStep)
          /\ ~st_dry_run =>
                st_status = IF /\ st_ran[Len(st_ran)].ret.ok
                               /\ success(st_ran[Len(st_ran)].ret.result)
                              THEN "done" ELSE "failed"

C36_Witness ==
    /\ st_pc = "validated"
    /\ Len(st_cmds) = 3
    /\ st_status = "done"
    /\ ~st_ran[1].ret.ok
    /\ st_ran[2].ret.ok /\ st_ran[2].ret.result.timed_out
    /\ st_ran[3].ret.ok /\ st_ran[3].ret.result.exit_code = 1

(***************************************************************************)
(* SpecAccept: the acceptance checks of the iterations of one run.  A      *)
(* requirement step is one action that records its validation; the        *)
(* criteria are run one per action.  What executor.run returns is an input *)
(* of the action that calls it.                                            *)
(***************************************************************************)
MaxCriteria == 2       \* acceptance criteria of the document
MaxAcceptReqs == 1     \* requirements of the document
MaxAcceptIters == 2    \* iterations started

AcceptConditions ==
    { c \in Conditions : c.text \in {"exit code = 0", "exit code = 99999999999"} }

InitAccept ==
    /\ interrupted = FALSE
    /\ ExecUnused
    /\ EvalUnused
    /\ DrvUnused
    /\ ShareUnused
    /\ CkptUnused
    /\ SerUnused
    /\ PromptUnused
    /\ ExtractUnused
    /\ ProgressUnused
    /\ AttemptsUnused
    /\ LoopUnused
    /\ ReportUnused
    /\ StepUnused
    /\ GuardUnused
    /\ ac_pc = "requirements"
    /\ \E n \in 0..MaxCriteria :
          ac_cfg \in [ dry_run : BOOLEAN, reqs : 0..MaxAcceptReqs,
                       criteria : [1..n -> AcceptConditions] ]
    /\ ac_iter = 1
    /\ ac_idx = 1
    /\ ac_failed = <<>>
    /\ ac_passed = FALSE
    /\ ac_prev = FALSE
    /\ ac_log = <<>>

\* driver.rs lines 117-331: one requirement step that reaches its validation
AcceptReqStep ==
    /\ ac_pc = "requirements"
    /\ ac_idx <= ac_cfg.reqs
    /\ ac_log' = IF ac_cfg.dry_run THEN ac_log
                 ELSE Append(ac_log, [kind |-> "requirement", idx |-> ac_idx])
    /\ ac_idx' = ac_idx + 1
    /\ UNCHANGED <<interrupted, exec_vars, eval_vars, drv_vars, fs_vars, cp_vars, ser_vars,
                   pp_vars, ex_vars, pg_vars, at_vars, lp_vars, rp_vars, st_vars, cg_vars,
                   ac_pc,
                   ac_cfg, ac_iter, ac_failed, ac_passed, ac_prev>>

\* driver.rs lines 118-140 and 196-210: a requirement step that stops the run
AcceptStop ==
    /\ ac_pc = "requirements"
    /\ ac_idx <= ac_cfg.reqs
    /\ ac_pc' = "returned"
    /\ UNCHANGED <<interrupted, exec_vars, eval_vars, drv_vars, fs_vars, cp_vars, ser_vars,
                   pp_vars, ex_vars, pg_vars, at_vars, lp_vars, rp_vars, st_vars, cg_vars,
                   ac_cfg,
                   ac_iter, ac_idx, ac_failed, ac_passed, ac_prev, ac_log>>

\* driver.rs line 333 and run_acceptance_checks line 415: let mut failed
AcceptBegin ==
    /\ ac_pc = "requirements"
    /\ ac_idx > ac_cfg.reqs
    /\ ac_failed' = <<>>
    /\ ac_idx' = 1
    /\ ac_pc' = "acceptance"
    /\ UNCHANGED <<interrupted, exec_vars, eval_vars, drv_vars, fs_vars, cp_vars, ser_vars,
                   pp_vars, ex_vars, pg_vars, at_vars, lp_vars, rp_vars, st_vars, cg_vars,
                   ac_cfg,
                   ac_iter, ac_passed, ac_prev, ac_log>>

\* run_acceptance_checks lines 417-475: one pass of the loop over the criteria
AcceptCriterion ==
    /\ ac_pc = "acceptance"
    /\ ac_idx <= Len(ac_cfg.criteria)
    /\ IF ac_cfg.dry_run
         THEN UNCHANGED <<ac_failed, ac_log>>
         ELSE \E ret \in CommandReturns :
                /\ ac_log' = Append(ac_log, [kind |-> "criterion", idx |-> ac_idx,
                                             ret |-> ret])
                /\ ac_failed' = IF CriterionFails(ac_cfg.criteria[ac_idx], ret)
                                  THEN Append(ac_failed, ac_idx)
                                  ELSE ac_failed
    /\ ac_idx' = ac_idx + 1
    /\ UNCHANGED <<interrupted, exec_vars, eval_vars, drv_vars, fs_vars, cp_vars, ser_vars,
                   pp_vars, ex_vars, pg_vars, at_vars, lp_vars, rp_vars, st_vars, cg_vars,
                   ac_pc,
                   ac_cfg, ac_iter, ac_passed, ac_prev>>

\* run_acceptance_checks line 478 and driver.rs line 341:
\* acceptance_passed = failed_criteria.is_empty()
AcceptDone ==
    /\ ac_pc = "acceptance"
    /\ ac_idx > Len(ac_cfg.criteria)
    /\ ac_passed' = (ac_failed = <<>>)
    /\ ac_pc' = "iteration_end"
    /\ UNCHANGED <<interrupted, exec_vars, eval_vars, drv_vars, fs_vars, cp_vars, ser_vars,
                   pp_vars, ex_vars, pg_vars, at_vars, lp_vars, rp_vars, st_vars, cg_vars,
                   ac_cfg,
                   ac_iter, ac_idx, ac_failed, ac_prev, ac_log>>

\* driver.rs lines 361-403 and 88-112: the end of the iteration, then the
\* head of the loop, which stops the run or starts the next iteration
AcceptNextIteration ==
    /\ ac_pc = "iteration_end"
    /\ \/ /\ ac_pc' = "returned"
          /\ UNCHANGED <<ac_iter, ac_idx, ac_prev, ac_log>>
       \/ /\ ac_iter < MaxAcceptIters
          /\ ac_iter' = ac_iter + 1
          /\ ac_idx' = 1
          /\ ac_prev' = ac_passed
          /\ ac_log' = <<>>
          /\ ac_pc' = "requirements"
    /\ UNCHANGED <<interrupted, exec_vars, eval_vars, drv_vars, fs_vars, cp_vars, ser_vars,
                   pp_vars, ex_vars, pg_vars, at_vars, lp_vars, rp_vars, st_vars, cg_vars,
                   ac_cfg,
                   ac_failed, ac_passed>>

NextAccept ==
    \/ AcceptReqStep
    \/ AcceptStop
    \/ AcceptBegin
    \/ AcceptCriterion
    \/ AcceptDone
    \/ AcceptNextIteration

SpecAccept == InitAccept /\ [][NextAccept]_vars

\* the executor calls of a complete iteration outside dry-run: every
\* requirement's validation, then every criterion, each once and in order
CriterionCall(i) == ac_log[ac_cfg.reqs + i]

CriterionWentWrong(i) ==
    LET ret == CriterionCall(i).ret
    IN  \/ ~ret.ok
        \/ ~evaluate_pass_condition(ac_cfg.criteria[i], ret.result).ok
        \/ ~evaluate_pass_condition(ac_cfg.criteria[i], ret.result).passed

\* C37: in every iteration outside dry-run that reaches its end each
\* acceptance criterion's validate_command has been run exactly once, after
\* all requirements and whatever the earlier criteria returned; the
\* acceptance result is passed exactly when no criterion failed its
\* condition, got an executor error or an evaluation error; it replaces the
\* result of the previous iteration.
C37_EveryCriterionOncePerIteration ==
    (ac_pc = "iteration_end" /\ ~ac_cfg.dry_run) =>
        /\ Len(ac_log) = ac_cfg.reqs + Len(ac_cfg.criteria)
        /\ \A i \in 1..ac_cfg.reqs :
              ac_log[i].kind = "requirement" /\ ac_log[i].idx = i
        /\ \A i \in 1..Len(ac_cfg.criteria) :
              CriterionCall(i).kind = "criterion" /\ CriterionCall(i).idx = i
        /\ ac_passed <=> \A i \in 1..Len(ac_cfg.criteria) : ~CriterionWentWrong(i)

C37_Witness ==
    /\ ac_pc = "iteration_end"
    /\ ~ac_cfg.dry_run
    /\ ac_iter = 2
    /\ ac_cfg.reqs = 1
    /\ Len(ac_cfg.criteria) = 2
    /\ ac_prev
    /\ ~ac_passed
    /\ ~CriterionCall(1).ret.ok
    /\ ~CriterionWentWrong(2)

\* C38 (under SpecCkpt): the path returned by CheckpointManager::save names
\* a directory that still exists after the pruning of that save, for every
\* retention count and also when the name has the collision suffix.
C38_ReturnedPathExists ==
    (cp_ret # NoValue /\ cp_ret.ok) => cp_ret.path \in NamesOf(cp_dirs)

(***************************************************************************)
(* SpecGuard: one ConvergenceGuard whose check() and remaining() are       *)
(* called at successive instants, before and after the budget runs out.    *)
(* Each call reads the clock once.                                         *)
(***************************************************************************)
MaxGuardRuntime == 2   \* the longest max_runtime
MaxGuardLate == 2      \* how far past max_runtime the clock goes

InitGuard ==
    /\ interrupted = FALSE
    /\ ExecUnused
    /\ EvalUnused
    /\ DrvUnused
    /\ ShareUnused
    /\ CkptUnused
    /\ SerUnused
    /\ PromptUnused
    /\ ExtractUnused
    /\ ProgressUnused
    /\ AttemptsUnused
    /\ LoopUnused
    /\ ReportUnused
    /\ StepUnused
    /\ AcceptUnused
    /\ cg_pc = "ready"
    /\ cg_max \in 0..MaxGuardRuntime
    /\ cg_now = 0
    /\ cg_check = NoValue
    /\ cg_remaining = NoValue
    /\ cg_earlier = NoValue

\* the monotonic clock (Instant) advances
GuardTick ==
    /\ cg_pc = "ready"
    /\ cg_now < cg_max + MaxGuardLate
    /\ cg_now' = cg_now + 1
    /\ UNCHANGED <<interrupted, exec_vars, eval_vars, drv_vars, fs_vars, cp_vars, ser_vars,
                   pp_vars, ex_vars, pg_vars, at_vars, lp_vars, rp_vars, st_vars, ac_vars,
                   cg_pc, cg_max, cg_check, cg_remaining, cg_earlier>>

\* convergence.check() at the head of the loop (driver.rs line 100)
GuardCheck ==
    /\ cg_pc = "ready"
    /\ cg_check' = [at |-> cg_now, stop |-> ConvergenceCheck(cg_now, cg_max)]
    /\ UNCHANGED <<interrupted, exec_vars, eval_vars, drv_vars, fs_vars, cp_vars, ser_vars,
                   pp_vars, ex_vars, pg_vars, at_vars, lp_vars, rp_vars, st_vars, ac_vars,
                   cg_pc, cg_max, cg_now, cg_remaining, cg_earlier>>

\* convergence.remaining() at the start of a requirement (driver.rs line 130)
GuardRemaining ==
    /\ cg_pc = "ready"
    /\ cg_remaining' = [at |-> cg_now, value |-> Remaining(cg_now, cg_max)]
    /\ cg_earlier' = cg_remaining
    /\ UNCHANGED <<interrupted, exec_vars, eval_vars, drv_vars, fs_vars, cp_vars, ser_vars,
                   pp_vars, ex_vars, pg_vars, at_vars, lp_vars, rp_vars, st_vars, ac_vars,
                   cg_pc, cg_max, cg_now, cg_check>>

NextGuard ==
    \/ GuardTick
    \/ GuardCheck
    \/ GuardRemaining

SpecGuard == InitGuard /\ [][NextGuard]_vars

\* C40: check returns a stop reason exactly when the elapsed time is at least
\* max_runtime, which is exactly when remaining() is zero; remaining() is
\* max_runtime minus the elapsed time while that is positive, is never
\* negative and never grows; the test at the head of the loop and the test
\* at the start of a requirement (remaining().is_zero()) trip under the same
\* condition.
C40_CheckIffNothingRemains ==
    /\ cg_check # NoValue =>
          /\ cg_check.stop <=> cg_check.at >= cg_max
          /\ cg_check.stop <=> Remaining(cg_check.at, cg_max) = 0
    /\ cg_remaining # NoValue =>
          /\ cg_remaining.value >= 0
          /\ cg_remaining.at < cg_max => cg_remaining.value = cg_max - cg_remaining.at
          /\ cg_remaining.at >= cg_max => cg_remaining.value = 0
          /\ (cg_remaining.value = 0) <=> ConvergenceCheck(cg_remaining.at, cg_max)
          /\ cg_earlier # NoValue => cg_remaining.value <= cg_earlier.value

C40_Witness ==
    /\ cg_max = 2
    /\ cg_now = 3
    /\ cg_check # NoValue /\ cg_check.at = 3 /\ cg_check.stop
    /\ cg_remaining # NoValue /\ cg_remaining.at = 3 /\ cg_remaining.value = 0
    /\ cg_earlier # NoValue /\ cg_earlier.value = 1

(***************************************************************************)
(* Claims about EngineRuntime::run (checked under Spec and LiveSpec).      *)
(***************************************************************************)
StatusOf(i) == req_status[Requirement(i).id].status

ProviderCallFailed == provider_result # NoValue /\ ~provider_result.ok

\* C1: an iteration that ends with every requirement Done and every acceptance
\* criterion passed is the last one: no other iteration starts after it, and
\* the RunSummary the run returns has completed = true.
C1_StopsWhenCompleted ==
    full_pass_iter # 0 =>
        /\ iteration = full_pass_iter
        /\ ((pc = "returned" /\ run_ret.ok) => run_ret.summary.completed)

\* C2: a returned RunSummary has completed = true only if one single
\* iteration set every requirement Done and passed every acceptance criterion.
C2_CompletedNeedsFullPass ==
    (pc = "returned" /\ run_ret.ok /\ run_ret.summary.completed) => full_pass_iter # 0

WriteFailures == {"failed to write report", "failed to save checkpoint"}

\* C3: with a finite max_runtime and calls that all end, run eventually
\* returns: a RunSummary, or the error of a failed report or checkpoint write.
C3_EventuallyReturns ==
    <>(pc = "returned" /\ (run_ret.ok \/ run_ret.err \in WriteFailures))

C3_Witness ==
    /\ pc = "returned"
    /\ run_ret.ok
    /\ run_ret.summary.stop_reason = "reached max_runtime"
    /\ run_ret.summary.iterations = MaxIter
    /\ ~run_ret.summary.completed
    /\ \E i \in 1..NumReqs : StatusOf(i) = "failed"

\* the error texts that the claim calls fatal
C4_FatalTexts ==
    { "claude returned error: Not logged in - Please run /login",
      "claude returned error: Invalid API key - run /login",
      "failed to spawn provider process | caused by: No such file or directory (os error 2)",
      "failed to spawn provider process | caused by: program not found" }

C4_StopReasons == {AuthStopReason, NotFoundStopReason}

\* C4: a provider call that fails with a fatal error text makes the run return
\* at once with completed = false and a stop reason: the requirement stays
\* InProgress without a validation, and the iteration has no later requirement,
\* acceptance check, report or checkpoint; the run never leaves that state.
C4_FatalStopsRun ==
    (ProviderCallFailed /\ provider_result.err.text \in C4_FatalTexts) =>
        /\ pc = "returned"
        /\ run_ret.ok
        /\ ~run_ret.summary.completed
        /\ run_ret.summary.stop_reason \in C4_StopReasons
        /\ run_ret.summary.iterations = iteration
        /\ StatusOf(req_idx) = "in_progress"
        /\ iter_log # <<>>
        /\ iter_log[Len(iter_log)] = <<"provider", req_idx>>
        /\ \A k \in 1..Len(iter_log) :
              /\ iter_log[k][1] \in {"provider", "validate"}
              /\ iter_log[k][2] <= req_idx
              /\ iter_log[k][1] = "validate" => iter_log[k][2] < req_idx

C4_Witness ==
    /\ pc = "returned"
    /\ ProviderCallFailed
    /\ run_ret.summary.stop_reason = NotFoundStopReason
    /\ req_idx = NumReqs
    /\ iteration = MaxIter

NonFatalFailure == ProviderCallFailed /\ provider_result.err.text \notin C4_FatalTexts

\* the step that validates the requirement after the failed call
ValidatedAfterFailure == NonFatalFailure /\ pc = "validate" /\ pc' # "validate"

\* C5 as written: after a provider call failed with a non-fatal error, the
\* requirement's validation leaves the requirement Failed.
C5_NonFatalThenFailed ==
    [][ValidatedAfterFailure =>
          req_status'[Requirement(req_idx).id].status = "failed"]_vars

\* C5, amended: after a provider call failed with a non-fatal error the driver
\* goes straight to the requirement's validation (it runs no extracted
\* command and does not return), the validation records the requirement Done
\* or Failed as its pass condition decides, and the run goes on to the start of
\* the next requirement, or to the acceptance checks after the last one.
C5_NonFatalStillValidates ==
    /\ [](NonFatalFailure =>
            /\ pc = "validate"
            /\ cmds_left = 0
            /\ iter_log # <<>>
            /\ iter_log[Len(iter_log)] = <<"provider", req_idx>>
            /\ StatusOf(req_idx) = "in_progress")
    /\ [][ValidatedAfterFailure =>
            /\ iter_log' = Append(iter_log, <<"validate", req_idx>>)
            /\ req_status'[Requirement(req_idx).id].status \in {"done", "failed"}
            /\ \A i \in 1..NumReqs :
                  i # req_idx => req_status'[Requirement(i).id] = req_status[Requirement(i).id]
            /\ IF req_idx < NumReqs
                 THEN pc' = "req_start" /\ req_idx' = req_idx + 1
                 ELSE pc' = "acceptance" /\ acc_idx' = 1]_vars

C5_Witness ==
    /\ NonFatalFailure
    /\ provider_result.err.text = "provider timed out after 60s"
    /\ pc = "validate"
    /\ cmds_left = 0
    /\ req_idx = 1
    /\ iteration = MaxIter

InterruptedCall == ProviderCallFailed /\ provider_result.err = InterruptedError

\* C11: after a provider call was aborted by the interruption flag, the run
\* executes no validation or acceptance command: the iteration's log gets no
\* further entry and the run returns with the interruption as stop reason.
C11_NoCommandAfterInterruptedCall ==
    [][InterruptedCall =>
          /\ iter_log' = iter_log
          /\ (pc' # pc => (pc' = "returned" /\ run_ret'.ok
                              /\ run_ret'.summary.stop_reason = "received Ctrl+C"))]_vars

\* C12: an iteration-start or requirement-start check that finds the flag set
\* makes run return 'received Ctrl+C', also with the budget used up at that
\* check, without marking a requirement, calling the provider or starting an
\* iteration; after the return nothing else happens.
C12_InterruptSeenAtCheck ==
    [][/\ (interrupted /\ pc \in {"loop_head", "req_start"} /\ pc' # pc) =>
            /\ pc' = "returned"
            /\ run_ret'.ok
            /\ run_ret'.summary.stop_reason = "received Ctrl+C"
            /\ run_ret'.summary.iterations = iteration
            /\ req_status' = req_status
            /\ iteration' = iteration
            /\ iter_log' = iter_log
       /\ (pc = "returned" => UNCHANGED drv_vars)]_vars

C12_Witness ==
    /\ pc = "returned"
    /\ interrupted
    /\ run_ret.ok
    /\ run_ret.summary.stop_reason = "received Ctrl+C"
    /\ run_cfg.max_runtime > 0
    /\ now = run_cfg.max_runtime
    /\ req_idx = NumReqs
    /\ StatusOf(NumReqs) = "todo"

\* C27: in dry-run mode a run sends no prompt to the provider and spawns no
\* shell command (no extracted command, no validation command, no acceptance
\* command); each requirement step sets the requirement Done and leaves its
\* attempts as they were, and the acceptance pass of the iteration counts as
\* passed.
C27_DryRunSpawnsNothing ==
    /\ [](run_cfg.dry_run =>
            /\ \A k \in 1..Len(iter_log) :
                  iter_log[k][1] \notin {"provider", "validate", "acceptance"}
            /\ pc # "commands"
            /\ cmds_left = 0)
    /\ [][ run_cfg.dry_run /\ pc = "validate" /\ pc' # pc =>
              /\ req_status'[Requirement(req_idx).id].status = "done"
              /\ req_status'[Requirement(req_idx).id].attempts =
                     req_status[Requirement(req_idx).id].attempts ]_vars
    /\ [][ run_cfg.dry_run /\ pc = "acceptance" /\ pc' # pc =>
              acceptance_passed' ]_vars

\* a dry run at the end of its first iteration
C27_Witness ==
    /\ run_cfg.dry_run
    /\ ~run_cfg.resumed
    /\ pc = "iteration_end"
    /\ iteration = 1
    /\ iter_log = <<>>
    /\ acceptance_passed
    /\ \A i \in 1..NumReqs :
          /\ StatusOf(i) = "done"
          /\ req_status[Requirement(i).id].attempts = 0

\* the run has made no provider call, spawned no command, changed no
\* requirement status and written no checkpoint
NothingDone ==
    /\ iter_log = <<>>
    /\ cmds_left = 0
    /\ provider_result = NoValue
    /\ status_snapshot(req_status) = previous_status
    /\ last_checkpoint = NoValue

\* C30 as stated: with max_runtime = 0 a run stops at its very first
\* convergence check: it returns a stop reason that names the runtime limit,
\* an iteration count of 0 or 1 and completed = false, and has made no provider
\* call, spawned no command, changed no requirement status and written no
\* checkpoint.
C30_ZeroRuntimeStopsAtFirstCheck ==
    run_cfg.max_runtime = 0 =>
        /\ pc \in {"loop_head", "returned"}
        /\ NothingDone
        /\ pc = "returned" =>
              /\ run_ret.ok
              /\ run_ret.summary.stop_reason = "reached max_runtime"
              /\ run_ret.summary.iterations \in {0, 1}
              /\ ~run_ret.summary.completed
              /\ run_ret.summary.last_checkpoint = NoValue

\* C30 amended: with max_runtime = 0 a run starts no iteration: it returns at
\* its first pass through the head of the loop, with the stop reason that
\* names the runtime limit, or "received Ctrl+C" when the interruption flag
\* is set by then; the iteration count it reports is the one it started with
\* (0 for a fresh run, the loaded one for a resumed run), completed = false,
\* and it has made no provider call, spawned no command, changed no
\* requirement status and written no checkpoint.
C30_ZeroRuntimeStartsNoIteration ==
    /\ [](run_cfg.max_runtime = 0 =>
            /\ pc \in {"loop_head", "returned"}
            /\ NothingDone
            /\ ~run_cfg.resumed => iteration = 0
            /\ pc = "returned" =>
                  /\ run_ret.ok
                  /\ \/ run_ret.summary.stop_reason = "reached max_runtime"
                     \/ interrupted /\ run_ret.summary.stop_reason = "received Ctrl+C"
                  /\ run_ret.summary.iterations = iteration
                  /\ ~run_ret.summary.completed
                  /\ run_ret.summary.last_checkpoint = NoValue)
    /\ [][ run_cfg.max_runtime = 0 =>
              /\ iteration' = iteration
              /\ req_status' = req_status
              /\ (pc = "loop_head" /\ ~interrupted /\ pc' # pc =>
                     run_ret'.summary.stop_reason = "reached max_runtime") ]_vars

\* a run resumed from the state of iteration MaxIter with every requirement
\* Done returns at once for the runtime limit
C30_Witness ==
    /\ run_cfg.max_runtime = 0
    /\ run_cfg.resumed
    /\ pc = "returned"
    /\ ~interrupted
    /\ run_ret.summary.stop_reason = "reached max_runtime"
    /\ run_ret.summary.iterations = MaxIter
    /\ all_done(req_status)
    /\ ~run_ret.summary.completed

\* C31: when the convergence budget is found exhausted at the start of a
\* requirement the run stops without changing any requirement's record: every
\* requirement, the one about to be processed included, keeps the status it
\* had before that check.
C31_BudgetStopKeepsRecords ==
    [][ /\ pc = "req_start"
        /\ pc' = "returned"
        /\ run_ret'.ok
        /\ run_ret'.summary.stop_reason = "reached max_runtime (0s remaining)"
        => req_status' = req_status ]_vars

\* The status changes the specification allows the driver to make.
SaneTransitions ==
    { <<"todo", "in_progress">>, <<"failed", "in_progress">>,
      <<"in_progress", "done">>, <<"in_progress", "failed">> }

\* C32: every status change the driver applies to a requirement is one of
\* Todo -> InProgress, Failed -> InProgress, InProgress -> Done and
\* InProgress -> Failed; no requirement is set to Todo or Blocked and none
\* leaves Done.
C32_OnlySaneTransitions ==
    [][ \A id \in ReqIds :
          req_status'[id].status # req_status[id].status
          => <<req_status[id].status, req_status'[id].status>>
                 \in SaneTransitions ]_vars

(***************************************************************************)
(* Claims about CommandExecutor (checked under SpecExec).                  *)
(***************************************************************************)

\* C6: run spawns the command at most max_retry + 1 times, one attempt after
\* the other; no attempt follows a successful one; a returned result is the
\* result of the last spawn, its attempt number is the number of spawns, and
\* it is either a success or the result of attempt max_retry + 1.
C6_RetryContract ==
    /\ spawns <= exec_cfg.max_retry + 1
    /\ Len(history) <= spawns
    /\ \A i \in 1..Len(history) :
           history[i] => (i = Len(history) /\ exec_pc = "returned")
    /\ (exec_pc = "returned" /\ exec_ret.ok) =>
           /\ exec_ret.result.attempt = spawns
           /\ Len(history) = spawns
           /\ history[spawns] = success(exec_ret.result)
           /\ (success(exec_ret.result) \/ spawns = exec_cfg.max_retry + 1)

\* a command that failed at least once and then succeeded
C6_Witness ==
    /\ exec_pc = "returned"
    /\ exec_ret.ok
    /\ success(exec_ret.result)
    /\ exec_ret.result.attempt = 3
    /\ exec_cfg.max_retry = 2

\* C7: an attempt on a command that runs longer than the timeout is reported
\* timed_out = true and success() = false, whatever its exit code.
C7_LongCommandTimesOut ==
    (exec_pc = "collect" /\ child.dur > exec_cfg.timeout) =>
        /\ timed_out
        /\ ~success(CommandResult(command, child.code, timed_out, attempt))

\* "a cargo command that needs a manifest": first token cargo, no
\* --manifest-path, and the subcommand (the first token after cargo that is not
\* an option), if there is one, none of those that work without a manifest
C9_NeedsManifest(cmd) ==
    /\ Len(cmd) > 0
    /\ Head(cmd) = "cargo"
    /\ \A i \in 1..Len(cmd) :
           cmd[i] \notin {"--manifest-path", "--manifest-path=sub/Cargo.toml"}
    /\ LET rest == SelectSeq(Tail(cmd), LAMBDA tok : ~IsOptionToken(tok))
       IN  rest # <<>> =>
              Head(rest) \notin {"new", "init", "install", "search", "login",
                                 "logout", "help", "version"}

\* C9: run on an empty or blank command, or on a cargo command that needs a
\* manifest in a workspace without Cargo.toml, returns an error without spawning
\* a process and without using a retry attempt.
C9_RejectedWithoutSpawn ==
    (/\ exec_pc # "idle"
     /\ \/ Len(command) = 0
        \/ (C9_NeedsManifest(command) /\ ~exec_cfg.has_manifest))
    => /\ exec_pc = "returned"
       /\ ~exec_ret.ok
       /\ spawns = 0
       /\ attempt = 0
       /\ history = <<>>

C9_Witness ==
    /\ exec_pc = "returned"
    /\ C9_NeedsManifest(command)
    /\ SubcommandIndex(command) = 0
    /\ ~exec_cfg.has_manifest
    /\ ~exec_ret.ok

\* C10: a step of the executor's wait loop taken while the interruption flag
\* is set aborts the run: it neither sleeps again, nor goes on to collect the
\* result or to retry.
C10_InterruptAbortsWait ==
    [][ (exec_pc = "wait" /\ interrupted /\ exec_vars' # exec_vars)
            => (exec_pc' = "returned" /\ ~exec_ret'.ok) ]_vars

(***************************************************************************)
(* Claims about the evaluation of a validation result (under SpecEval).    *)
(***************************************************************************)

\* C8: on a validation CommandResult with timed_out = true, whatever the pass
\* condition is, the requirement is not set Done and the acceptance criterion
\* does not pass.
C8_TimedOutNeverPasses ==
    (ev_ret.ok /\ ev_ret.result.timed_out) =>
        /\ (ev_pc = "requirement" => ev_status # "done")
        /\ (ev_pc = "acceptance" => ev_failed)

\* the command ran and its result has the exit code the condition names and is
\* not timed out
ExitCodeMet ==
    /\ ev_ret.ok
    /\ ev_cond.exit_code # OutOfRange
    /\ ev_ret.result.exit_code = ev_cond.exit_code.value
    /\ ~ev_ret.result.timed_out

\* C20: for a condition text that matches the exit-code pattern with expected
\* code N the evaluation passes exactly when the result's exit code is N and
\* the result is not timed out, also when the text matches the coverage, lint
\* or contains pattern as well (a number too large for an exit code is met by
\* no result); seen in the requirement's status and in the criterion's failure.
C20_ExitCodeRuleFirst ==
    ev_cond # NoValue /\ ~ev_cond.blank /\ ev_cond.exit_code # NoValue =>
        /\ ev_pc = "requirement" => (ev_status = "done" <=> ExitCodeMet)
        /\ ev_pc = "acceptance" => (ev_failed <=> ~ExitCodeMet)

\* the exit code differs from the expected one although the output holds the
\* needle that the same text asks for
C20_Witness ==
    /\ ev_pc = "requirement"
    /\ ev_cond.text = "exit code = 0 and output contains 'ok'"
    /\ ev_ret.ok
    /\ ev_ret.result.exit_code = 1
    /\ "ok" \in ev_ret.result.out.needles
    /\ ev_status = "failed"

\* the condition text matches none of the exit-code, coverage, lint and
\* contains patterns
MatchesNoPattern(cond) ==
    /\ cond.exit_code = NoValue
    /\ cond.coverage = NoValue
    /\ ~cond.clippy
    /\ cond.needle = NoValue

\* the condition text is judged by the coverage rule
MatchesOnlyCoverage(cond) ==
    /\ cond # NoValue
    /\ ~cond.blank
    /\ cond.exit_code = NoValue
    /\ cond.coverage # NoValue

\* C21: for an empty or whitespace-only condition, and for a condition text
\* that matches none of the patterns, the evaluation passes exactly when the
\* command produced a result with exit code 0 that is not timed out.
C21_DefaultAndFallback ==
    ev_cond # NoValue /\ (ev_cond.blank \/ MatchesNoPattern(ev_cond)) =>
        LET succeeded == /\ ev_ret.ok
                         /\ ev_ret.result.exit_code = 0
                         /\ ~ev_ret.result.timed_out
        IN  /\ ev_pc = "requirement" => (ev_status = "done" <=> succeeded)
            /\ ev_pc = "acceptance" => (ev_failed <=> ~succeeded)

\* a timed-out result with exit code 0 judged by the fallback rule
C21_Witness ==
    /\ ev_pc = "acceptance"
    /\ ev_cond.text = "all tests pass"
    /\ ev_ret.ok
    /\ ev_ret.result.exit_code = 0
    /\ ev_ret.result.timed_out
    /\ ev_failed

\* C22: evaluate_pass_condition returns an evaluation, never an error, for
\* every condition text and every command result; a condition whose number
\* cannot be parsed is judged by the fallback rule (exit code 0, not timed out).
C22_NeverAnError ==
    ev_pc \in {"requirement", "acceptance"} /\ ev_ret.ok =>
        /\ evaluate_pass_condition(ev_cond, ev_ret.result).ok
        /\ ev_cond.exit_code = OutOfRange /\ ev_pc = "requirement" =>
              (ev_status = "done" <=> (ev_ret.result.exit_code = 0 /\ ~ev_ret.result.timed_out))

\* the last coverage value in stdout followed by stderr
LastCoverageSeen ==
    IF ev_ret.result.out.stderr_cov # <<>>
    THEN Some(ev_ret.result.out.stderr_cov[Len(ev_ret.result.out.stderr_cov)])
    ELSE IF ev_ret.result.out.stdout_cov # <<>>
    THEN Some(ev_ret.result.out.stdout_cov[Len(ev_ret.result.out.stdout_cov)])
    ELSE NoValue

\* the condition of the evaluation is a coverage condition and the command ran
CoverageJudged ==
    /\ ev_pc \in {"requirement", "acceptance"}
    /\ MatchesOnlyCoverage(ev_cond)
    /\ ev_ret.ok

EvalPassed == IF ev_pc = "requirement" THEN ev_status = "done" ELSE ~ev_failed

C28_RecordAfterStep ==
    ev_pc = "requirement" =>
        LET passes == /\ ev_ret.ok
                      /\ evaluate_pass_condition(ev_cond, ev_ret.result).ok
                      /\ evaluate_pass_condition(ev_cond, ev_ret.result).passed
        IN  /\ ev_record.status = "done" <=> passes
            /\ ev_record.status = "done" => ev_record.last_error = NoValue
            /\ ev_record.status # "done" =>
                  /\ ev_record.status = "failed"
                  /\ ev_record.last_error # NoValue
                  /\ ev_record.last_error.value # ""
            /\ ev_record.evidence # NoValue <=> ev_ret.ok
            /\ ev_record.evidence # NoValue =>
                  ev_record.evidence.value.exit_code = ev_ret.result.exit_code

\* a requirement that failed before passes now: its last_error is cleared
C28_Witness ==
    /\ ev_pc = "requirement"
    /\ ev_cond.text = "exit code = 0"
    /\ ev_ret.ok
    /\ ev_record.status = "done"
    /\ ev_record.attempts = 2
    /\ ev_record.last_error = NoValue
    /\ ev_record.evidence = Some([exit_code |-> 0])

=============================================================================
